---- MODULE Spec2Model ----
(***************************************************************************)
(* Relative-value engine of the bond like-for-like comparator.             *)
(*                                                                         *)
(* Decimal rates (Python floats such as 0.0344) are fixed-point integers   *)
(* counted in units of 1/ONE, so that 1 bp = BP units; arithmetic on them  *)
(* is exact.  Text (spread strings, bond names, tenor keys) is a sequence  *)
(* of one-character strings.                                               *)
(***************************************************************************)
EXTENDS Integers, Sequences, FiniteSets, TLC

VARIABLES call, pc, ingested_bonds, request, realtime, market_data_results,
          reviewed_map, results

vars == <<call, pc, ingested_bonds, request, realtime, market_data_results,
          reviewed_map, results>>

pipeVars == <<pc, ingested_bonds, request, realtime, market_data_results,
              reviewed_map, results>>

(***************************************************************************)
(* Bounds of the model.                                                    *)
(***************************************************************************)
MaxSpreadBps == 12

MaxExcessBps == 7

MaxBatch == 3

\* the largest batch analysed against the uploaded-table variants
MaxUpload == 2

(***************************************************************************)
(* Numbers.                                                                *)
(***************************************************************************)
BPS_CONVERSION == 10000

ONE == BPS_CONVERSION * 1000

BP == ONE \div BPS_CONVERSION

Abs(x) == IF x < 0 THEN -x ELSE x

\* a local name: Op applied to the value v, which is computed once
With(v, Op(_)) == Op(v)

(***************************************************************************)
(* Text.                                                                   *)
(***************************************************************************)
UpperLetters == <<"A","B","C","D","E","F","G","H","I","J","K","L","M",
                  "N","O","P","Q","R","S","T","U","V","W","X","Y","Z">>

LowerLetters == <<"a","b","c","d","e","f","g","h","i","j","k","l","m",
                  "n","o","p","q","r","s","t","u","v","w","x","y","z">>

DigitChars == <<"0","1","2","3","4","5","6","7","8","9">>

Range(f) == {f[i] : i \in DOMAIN f}

IsLetter(c) == c \in Range(UpperLetters) \cup Range(LowerLetters)

IsDigit(c) == c \in Range(DigitChars)

IsSpace(c) == c = " "

IndexIn(c, alphabet) == CHOOSE i \in DOMAIN alphabet : alphabet[i] = c

UpperChar(c) ==
    IF c \in Range(LowerLetters) THEN UpperLetters[IndexIn(c, LowerLetters)]
    ELSE c

LowerChar(c) ==
    IF c \in Range(UpperLetters) THEN LowerLetters[IndexIn(c, UpperLetters)]
    ELSE c

\* str.upper()
upper(s) == [i \in DOMAIN s |-> UpperChar(s[i])]

\* str.lower()
lower(s) == [i \in DOMAIN s |-> LowerChar(s[i])]

\* str.strip()
strip(s) ==
    LET keep == {i \in DOMAIN s : ~IsSpace(s[i])}
    IN  IF keep = {} THEN <<>>
        ELSE LET lo == CHOOSE i \in keep : \A j \in keep : i <= j
                 hi == CHOOSE i \in keep : \A j \in keep : j <= i
             IN  SubSeq(s, lo, hi)

\* sub in s
Contains(s, sub) ==
    \E i \in 0 .. (Len(s) - Len(sub)) : SubSeq(s, i + 1, i + Len(sub)) = sub

\* length of the longest run of characters satisfying the class, from position i
RECURSIVE LetterRun(_, _)
LetterRun(s, i) ==
    IF i <= Len(s) /\ IsLetter(s[i]) THEN 1 + LetterRun(s, i + 1) ELSE 0

RECURSIVE DigitRun(_, _)
DigitRun(s, i) ==
    IF i <= Len(s) /\ IsDigit(s[i]) THEN 1 + DigitRun(s, i + 1) ELSE 0

\* int("0123") for a non-empty string of decimal digits
RECURSIVE DigitsToInt(_)
DigitsToInt(d) ==
    IF d = <<>> THEN 0
    ELSE 10 * DigitsToInt(SubSeq(d, 1, Len(d) - 1))
         + (IndexIn(d[Len(d)], DigitChars) - 1)

\* str(n) for n >= 0
RECURSIVE IntToDigits(_)
IntToDigits(n) ==
    IF n < 10 THEN <<DigitChars[n + 1]>>
    ELSE IntToDigits(n \div 10) \o <<DigitChars[(n % 10) + 1]>>

StrBps == <<"b","p","s">>

StrSofrEquivalent ==
    <<"s","o","f","r"," ","e","q","u","i","v","a","l","e","n","t">>

StrSofrHyphenEquivalent ==
    <<"s","o","f","r","-","e","q","u","i","v","a","l","e","n","t">>

(***************************************************************************)
(* normalization_engine.py                                                 *)
(***************************************************************************)
NoText == <<>>

\* an exception of Python class kind carrying message msg
Raise(kind, msg) ==
    [err |-> kind, msg |-> msg, benchmark |-> NoText, value |-> 0, cost |-> 0]

Return(benchmark, value, cost) ==
    [err |-> "", msg |-> "", benchmark |-> benchmark, value |-> value,
     cost |-> cost]

\* re.match(r"([A-Z]+)([+-])(\d+)bps", spread_string, re.IGNORECASE):
\* the pattern is anchored at the start of the string only.
SpreadMatch(s) ==
    LET n1 == LetterRun(s, 1)
        n2 == DigitRun(s, n1 + 2)
    IN  /\ n1 >= 1
        /\ Len(s) >= n1 + 1
        /\ s[n1 + 1] \in {"+", "-"}
        /\ n2 >= 1
        /\ Len(s) >= n1 + 1 + n2 + 3
        /\ lower(SubSeq(s, n1 + n2 + 2, n1 + n2 + 4)) = StrBps

\* re.match(r'^[A-Z]+[+-]\d+bps$', spread_string, re.IGNORECASE):
\* the pattern anchored at both ends (the request handlers' format check)
SpreadFullMatch(s) ==
    /\ SpreadMatch(s)
    /\ Len(s) = LetterRun(s, 1) + DigitRun(s, LetterRun(s, 1) + 2) + 4

\* parse_spread with the sign dropped
parse_spread_unsigned(spread_string) ==
    LET s  == spread_string
        n1 == LetterRun(s, 1)
        n2 == DigitRun(s, n1 + 2)
        bps_value == DigitsToInt(SubSeq(s, n1 + 2, n1 + n2 + 1))
    IN  IF ~SpreadMatch(s) THEN Raise("ValueError", "Invalid spread format")
        ELSE Return(upper(SubSeq(s, 1, n1)),
                    (bps_value * ONE) \div BPS_CONVERSION, 0)

parse_spread(spread_string) ==
    LET s  == spread_string
        n1 == LetterRun(s, 1)
        n2 == DigitRun(s, n1 + 2)
        bps_value == DigitsToInt(SubSeq(s, n1 + 2, n1 + n2 + 1))
    IN  IF ~SpreadMatch(s) THEN Raise("ValueError", "Invalid spread format")
        ELSE Return(upper(SubSeq(s, 1, n1)),
                    ((IF s[n1 + 1] = "-" THEN -bps_value ELSE bps_value) * ONE)
                        \div BPS_CONVERSION, 0)

\* calculate_local_offered_yield that takes the spread off the benchmark rate
calculate_local_offered_yield_subtracted(benchmark_rate, spread_decimal) ==
    benchmark_rate - spread_decimal

calculate_local_offered_yield(benchmark_rate, spread_decimal) ==
    benchmark_rate + spread_decimal

\* A tenor as it arrives in a bond record: a JSON number, a form string, or null.
NumTenor(n) == [form |-> "num", num |-> n, text |-> NoText]

StrTenor(t) == [form |-> "str", num |-> 0, text |-> t]

NullTenor == [form |-> "null", num |-> 0, text |-> NoText]

\* int(tenor)
PyInt(tenor) ==
    CASE tenor.form = "num" -> Return(NoText, tenor.num, 0)
      [] tenor.form = "str" ->
            LET t == strip(tenor.text)
            IN  IF t # <<>> /\ DigitRun(t, 1) = Len(t)
                THEN Return(NoText, DigitsToInt(t), 0)
                ELSE Raise("ValueError", "invalid literal for int()")
      [] OTHER -> Raise("TypeError", "int() argument must be a number")

\* str(tenor)
PyStr(tenor) ==
    CASE tenor.form = "num" -> IntToDigits(tenor.num)
      [] tenor.form = "str" -> tenor.text
      [] OTHER -> <<"N","o","n","e">>

\* calculate_sofr_swap_rate with the spread added instead of subtracted
calculate_sofr_swap_rate_added(tenor, sofr_spread_data) ==
    LET i == PyInt(tenor)
        tenor_key == IntToDigits(i.value)
    IN  IF i.err # "" THEN i
        ELSE IF tenor_key \notin DOMAIN sofr_spread_data
        THEN Raise("ValueError", "SOFR spread data not available for tenor")
        ELSE Return(NoText, sofr_spread_data[tenor_key].T_RATE
                            + sofr_spread_data[tenor_key].T_SOFR_SPREAD, 0)

\* calculate_sofr_swap_rate falling back to the nearest lower tenor of the table
calculate_sofr_swap_rate_nearest(tenor, sofr_spread_data) ==
    LET i == PyInt(tenor)
        tenor_key == IntToDigits(i.value)
        lower_keys == {k \in DOMAIN sofr_spread_data : DigitsToInt(k) <= i.value}
        near == CHOOSE k \in lower_keys :
                    \A j \in lower_keys : DigitsToInt(j) <= DigitsToInt(k)
    IN  IF i.err # "" THEN i
        ELSE IF tenor_key \in DOMAIN sofr_spread_data
        THEN Return(NoText, sofr_spread_data[tenor_key].T_RATE
                            - sofr_spread_data[tenor_key].T_SOFR_SPREAD, 0)
        ELSE IF lower_keys # {}
        THEN Return(NoText, sofr_spread_data[near].T_RATE
                            - sofr_spread_data[near].T_SOFR_SPREAD, 0)
        ELSE Raise("ValueError", "SOFR spread data not available for tenor")

calculate_sofr_swap_rate(tenor, sofr_spread_data) ==
    LET i == PyInt(tenor)
        tenor_key == IntToDigits(i.value)
    IN  IF i.err # "" THEN i
        ELSE IF tenor_key \notin DOMAIN sofr_spread_data
        THEN Raise("ValueError", "SOFR spread data not available for tenor")
        ELSE Return(NoText, sofr_spread_data[tenor_key].T_RATE
                            - sofr_spread_data[tenor_key].T_SOFR_SPREAD, 0)

\* calculate_sofr_equivalent_spread taking the T-SOFR spread off the baseline
calculate_sofr_equivalent_spread_less(x, treasury_rate, sofr_treasury_spread) ==
    x - sofr_treasury_spread

calculate_sofr_equivalent_spread(x, treasury_rate, sofr_treasury_spread) ==
    x + sofr_treasury_spread

USD == <<"U","S","D">>

\* "not r": the rate is None (key absent) or zero
Falsy(funding_rates, ccy) ==
    ccy \notin DOMAIN funding_rates \/ funding_rates[ccy] = 0

\* calculate_usd_hedged_yield with the compounded parity formula of its docstring
calculate_usd_hedged_yield_compounded(local_yield, ccy, funding_rates) ==
    IF Falsy(funding_rates, USD) \/ Falsy(funding_rates, ccy)
    THEN Raise("ValueError", "Funding rate missing for CCY")
    ELSE LET r_usd == funding_rates[USD]
             r_fcy == funding_rates[ccy]
         \* (1 + Y)(1 + r_USD)/(1 + r_FCY) - 1, evaluated at 1 bp resolution
         IN  Return(NoText,
                    (((((ONE + local_yield) \div BP) * ((ONE + r_usd) \div BP))
                        \div ((ONE + r_fcy) \div BP)) * BP) - ONE,
                    r_usd - r_fcy)

\* calculate_usd_hedged_yield reading an absent rate as 0 instead of failing
calculate_usd_hedged_yield_defaulting(local_yield, ccy, funding_rates) ==
    LET r_usd == IF USD \in DOMAIN funding_rates THEN funding_rates[USD] ELSE 0
        r_fcy == IF ccy \in DOMAIN funding_rates THEN funding_rates[ccy] ELSE 0
    IN  Return(NoText, local_yield + (r_usd - r_fcy), r_usd - r_fcy)

calculate_usd_hedged_yield(local_yield, ccy, funding_rates) ==
    IF Falsy(funding_rates, USD) \/ Falsy(funding_rates, ccy)
    THEN Raise("ValueError", "Funding rate missing for CCY")
    ELSE LET r_usd == funding_rates[USD]
             r_fcy == funding_rates[ccy]
             fx_hedge_cost == r_usd - r_fcy
         IN  Return(NoText, local_yield + fx_hedge_cost, fx_hedge_cost)

(***************************************************************************)
(* services/analysis_service.py: thresholds and assessment                 *)
(***************************************************************************)
RICH_THRESHOLD == -5 * BP

CHEAP_THRESHOLD == 5 * BP

\* determine_assessment with inclusive thresholds
determine_assessment_inclusive(excess_yield) ==
    IF excess_yield >= CHEAP_THRESHOLD THEN "Cheap (BUY)"
    ELSE IF excess_yield <= RICH_THRESHOLD THEN "Rich (PASS)"
    ELSE "Fair (HOLD)"

determine_assessment(excess_yield) ==
    IF excess_yield > CHEAP_THRESHOLD THEN "Cheap (BUY)"
    ELSE IF excess_yield < RICH_THRESHOLD THEN "Rich (PASS)"
    ELSE "Fair (HOLD)"

(***************************************************************************)
(* config.py: the static market-data tables                                *)
(***************************************************************************)
TECH == <<"T","E","C","H">>

ENERGY == <<"E","N","E","R","G","Y">>

FINANCIALS == <<"F","I","N","A","N","C","I","A","L","S">>

CAD == <<"C","A","D">>

EUR == <<"E","U","R">>

GBP == <<"G","B","P">>

CodeT == <<"T">>

CodeS == <<"S">>

CodeG == <<"G">>

CodeMS == <<"M","S">>

\* f"{ccy}_{sector}"
CurveKey(ccy, sector) == ccy \o <<"_">> \o sector

MARKET_RATES ==
    [code \in {CodeT, CodeG, CodeMS} |->
        CASE code = CodeT -> 344 * BP
          [] code = CodeG -> 320 * BP
          [] OTHER -> 350 * BP]

FUNDING_RATES ==
    [ccy \in {USD, CAD, EUR, GBP} |->
        CASE ccy = USD -> 500 * BP
          [] ccy = CAD -> 450 * BP
          [] ccy = EUR -> 400 * BP
          [] OTHER -> 425 * BP]

SOFR_SPREADS ==
    [tenor \in {<<"1">>, <<"5">>, <<"1","0">>} |->
        CASE tenor = <<"1">> -> [T_RATE |-> 344 * BP, T_SOFR_SPREAD |-> 25 * BP]
          [] tenor = <<"5">> -> [T_RATE |-> 400 * BP, T_SOFR_SPREAD |-> 30 * BP]
          [] OTHER -> [T_RATE |-> 420 * BP, T_SOFR_SPREAD |-> 35 * BP]]

FairCurve(aaa, aa, a, bbb) ==
    [AAA |-> aaa * BP, AA |-> aa * BP, A |-> a * BP, BBB |-> bbb * BP]

FAIR_CURVES ==
    [key \in {CurveKey(c, sec) : c \in {USD, CAD, EUR},
                                 sec \in {TECH, ENERGY, FINANCIALS}} |->
        CASE key = CurveKey(USD, TECH) -> FairCurve(380, 400, 420, 450)
          [] key = CurveKey(USD, ENERGY) -> FairCurve(375, 395, 415, 445)
          [] key = CurveKey(USD, FINANCIALS) -> FairCurve(385, 405, 425, 455)
          [] key = CurveKey(CAD, TECH) -> FairCurve(360, 380, 400, 430)
          [] key = CurveKey(CAD, ENERGY) -> FairCurve(355, 375, 395, 425)
          [] key = CurveKey(CAD, FINANCIALS) -> FairCurve(365, 385, 405, 435)
          [] key = CurveKey(EUR, TECH) -> FairCurve(350, 370, 390, 420)
          [] key = CurveKey(EUR, ENERGY) -> FairCurve(345, 365, 385, 415)
          [] OTHER -> FairCurve(355, 375, 395, 425)]

(***************************************************************************)
(* Optional values: None, or a present value.                              *)
(***************************************************************************)
None == [some |-> FALSE, v |-> <<>>]

Some(v) == [some |-> TRUE, v |-> v]

NoneNum == [some |-> FALSE, v |-> 0]

\* bool(d) of an optional dict: None and {} are both false
Truthy(d) == d.some /\ DOMAIN d.v # {}

\* "x if x else None" for a dict x
OrNone(d) == IF DOMAIN d # {} THEN Some(d) ELSE None

(***************************************************************************)
(* services/realtime_data_service.py: the live data source.  Its answers   *)
(* come from outside the program; rt is what the source does in this run:  *)
(* "unavailable" (the service cannot be imported), "failed" (a fetch       *)
(* raises), "ok_no_sofr" (rates fetched, SOFR fetch failed) or "ok".       *)
(***************************************************************************)
RealtimeModes == {"unavailable", "failed", "ok_no_sofr", "ok"}

fetch_all_realtime_data(rt, ccy, tenor) ==
    [benchmark_rate |-> 350 * BP,
     funding_rates |-> [c \in {USD, CAD, EUR, GBP} |->
                           IF c = USD THEN 480 * BP ELSE 430 * BP],
     sofr_spread_data |->
        IF rt = "ok"
        THEN [k \in {tenor} |-> [T_RATE |-> 350 * BP, T_SOFR_SPREAD |-> 20 * BP]]
        ELSE <<>>,
     source |-> "Real-time (Gemini API)"]

(***************************************************************************)
(* services/market_data_service.py                                         *)
(***************************************************************************)
CtxRaise(kind, msg) ==
    [err |-> kind, msg |-> msg, benchmark_rate |-> 0, market_rates |-> <<>>,
     funding_rates |-> <<>>, sofr_spread_data |-> <<>>, fair_ytm_local |-> 0,
     ccy |-> NoText, tenor |-> NoText, data_source |-> ""]

\* the fair YTM looked up for the bond: Excel curves {rating: {tenor: ytm}} when
\* they hold the curve key, the config curves {rating: ytm} otherwise
FairLookup(curve_key, rating, tenor, excel_fair_value_curves) ==
    IF Truthy(excel_fair_value_curves)
       /\ curve_key \in DOMAIN excel_fair_value_curves.v
    THEN With(excel_fair_value_curves.v[curve_key], LAMBDA fair_curve_set :
             IF rating \notin DOMAIN fair_curve_set
             THEN Raise("ValueError", "Fair YTM not found for rating")
             ELSE IF tenor \notin DOMAIN fair_curve_set[rating]
             THEN Raise("ValueError", "Fair YTM not found for tenor")
             ELSE Return(NoText, fair_curve_set[rating][tenor], 0))
    ELSE IF curve_key \notin DOMAIN FAIR_CURVES
    THEN Raise("ValueError", "Fair curve not found for sector/ccy")
    ELSE IF rating \notin DOMAIN FAIR_CURVES[curve_key]
            \/ FAIR_CURVES[curve_key][rating] = 0
    THEN Raise("ValueError", "Fair YTM not found for rating")
    ELSE Return(NoText, FAIR_CURVES[curve_key][rating], 0)

\* the benchmark rate of the bond's resolved benchmark code
\* BenchmarkLookup answering code S with the Treasury leg of the SOFR table
BenchmarkLookup_treasury_leg(bond, market_rates, sofr_spread_data) ==
    With(upper(bond.benchmark), LAMBDA benchmark_code :
    With(IntToDigits(PyInt(bond.tenor).value), LAMBDA tenor_key :
        IF benchmark_code = CodeS
        THEN IF tenor_key \notin DOMAIN sofr_spread_data
             THEN Raise("ValueError",
                        "SOFR spread data not available for tenor")
             ELSE Return(NoText, sofr_spread_data[tenor_key].T_RATE, 0)
        ELSE IF benchmark_code \notin DOMAIN market_rates
        THEN Raise("ValueError", "Benchmark rate not found")
        ELSE Return(NoText, market_rates[benchmark_code], 0)))

\* BenchmarkLookup taking a benchmark rate of 0 for a missing one
BenchmarkLookup_zero_as_missing(bond, market_rates, sofr_spread_data) ==
    With(upper(bond.benchmark), LAMBDA benchmark_code :
    With(IntToDigits(PyInt(bond.tenor).value), LAMBDA tenor_key :
        IF benchmark_code = CodeS
        THEN IF tenor_key \notin DOMAIN sofr_spread_data
             THEN Raise("ValueError",
                        "SOFR spread data not available for tenor")
             ELSE Return(NoText, sofr_spread_data[tenor_key].T_RATE
                                 - sofr_spread_data[tenor_key].T_SOFR_SPREAD, 0)
        ELSE IF \/ benchmark_code \notin DOMAIN market_rates
                \/ market_rates[benchmark_code] = 0
        THEN Raise("ValueError", "Benchmark rate not found")
        ELSE Return(NoText, market_rates[benchmark_code], 0)))

BenchmarkLookup(bond, market_rates, sofr_spread_data) ==
    With(upper(bond.benchmark), LAMBDA benchmark_code :
    With(IntToDigits(PyInt(bond.tenor).value), LAMBDA tenor_key :
        IF benchmark_code = CodeS
        THEN IF tenor_key \notin DOMAIN sofr_spread_data
             THEN Raise("ValueError",
                        "SOFR spread data not available for tenor")
             ELSE Return(NoText, sofr_spread_data[tenor_key].T_RATE
                                 - sofr_spread_data[tenor_key].T_SOFR_SPREAD, 0)
        ELSE IF benchmark_code \notin DOMAIN market_rates
        THEN Raise("ValueError", "Benchmark rate not found")
        ELSE Return(NoText, market_rates[benchmark_code], 0)))

get_market_context(bond, use_realtime, sofr_data_override, excel_benchmark_rates, excel_funding_rates, excel_fair_value_curves, rt) ==
    With(PyInt(bond.tenor), LAMBDA i :
    With(IntToDigits(i.value), LAMBDA tenor :
    With(IF \/ Truthy(excel_benchmark_rates)
            \/ Truthy(excel_funding_rates)
            \/ Truthy(excel_fair_value_curves)
         THEN "Excel file"
         ELSE IF use_realtime /\ rt # "unavailable"
         THEN (IF rt = "failed" THEN "Config (fallback)"
               ELSE "Real-time (Gemini API)")
         ELSE "Config (static)", LAMBDA branch :
    With(fetch_all_realtime_data(rt, bond.ccy, tenor), LAMBDA realtime_data :
    With(CASE branch = "Excel file" ->
                 IF Truthy(excel_benchmark_rates)
                 THEN excel_benchmark_rates.v ELSE MARKET_RATES
           [] branch = "Real-time (Gemini API)" ->
                 [c \in {IF bond.benchmark = NoText THEN CodeT
                         ELSE bond.benchmark} |->
                     realtime_data.benchmark_rate]
           [] OTHER -> MARKET_RATES, LAMBDA market_rates :
    With(CASE branch = "Excel file" ->
                 IF Truthy(excel_funding_rates)
                 THEN excel_funding_rates.v ELSE FUNDING_RATES
           [] branch = "Real-time (Gemini API)" -> realtime_data.funding_rates
           [] OTHER -> FUNDING_RATES, LAMBDA funding_rates :
    With(IF sofr_data_override.some THEN sofr_data_override.v
         ELSE IF branch = "Real-time (Gemini API)"
                 /\ DOMAIN realtime_data.sofr_spread_data # {}
         THEN realtime_data.sofr_spread_data
         ELSE SOFR_SPREADS, LAMBDA sofr_spread_data :
    With(BenchmarkLookup(bond, market_rates, sofr_spread_data),
         LAMBDA benchmark :
    With(FairLookup(upper(CurveKey(bond.ccy, bond.sector)), bond.rating, tenor,
                    excel_fair_value_curves), LAMBDA fair :
        IF i.err # "" THEN CtxRaise(i.err, i.msg)
        ELSE IF benchmark.err # "" THEN CtxRaise(benchmark.err, benchmark.msg)
        ELSE IF fair.err # "" THEN CtxRaise(fair.err, fair.msg)
        ELSE [err |-> "", msg |-> "",
              benchmark_rate |-> benchmark.value,
              market_rates |-> market_rates,
              funding_rates |-> funding_rates,
              sofr_spread_data |-> sofr_spread_data,
              fair_ytm_local |-> fair.value,
              ccy |-> bond.ccy, tenor |-> tenor,
              data_source |-> branch])))))))))

(***************************************************************************)
(* app.py: /fetchMarketData, static path (Excel tables or config.py).      *)
(* A bond is a record [bondName, cpnType, ccy, tenor, rating, sector,      *)
(* spread, benchmark]; benchmark = NoText until a stage writes it.         *)
(***************************************************************************)
StrFIXED == <<"F","I","X","E","D">>

StrFLOAT == <<"F","L","O","A","T">>

\* ['s+0bps', 's+0 bps', 'sofr+0bps', 'sofr+0 bps']
SofrZeroSpreads ==
    {<<"s","+","0","b","p","s">>, <<"s","+","0"," ","b","p","s">>,
     <<"s","o","f","r","+","0","b","p","s">>,
     <<"s","o","f","r","+","0"," ","b","p","s">>}

\* the explicit signals of SOFR-equivalence in the spread text or bond name
IsExplicitSofrEquivalent(bond) ==
    LET spread_lower == strip(lower(strip(bond.spread)))
        bond_name_lower == lower(bond.bondName)
        cpn_type == upper(bond.cpnType)
    IN  \/ Contains(spread_lower, StrSofrEquivalent)
        \/ Contains(spread_lower, StrSofrHyphenEquivalent)
        \/ spread_lower = StrSofrEquivalent
        \/ spread_lower = StrSofrHyphenEquivalent
        \/ Contains(bond_name_lower, StrSofrEquivalent)
        \/ (cpn_type = StrFLOAT /\ spread_lower \in SofrZeroSpreads)

\* the test of the pairing loop: another bond, FIXED, with the same four keys
IsEquivalentFixedBond(other_bond, bond) ==
    /\ other_bond.bondName # bond.bondName
    /\ upper(other_bond.cpnType) = StrFIXED
    /\ other_bond.ccy = bond.ccy
    /\ PyStr(other_bond.tenor) = PyStr(bond.tenor)
    /\ other_bond.rating = bond.rating
    /\ other_bond.sector = bond.sector

\* pairing that takes the last matching bond of the batch
equivalent_fixed_bond_last(bond, bonds) ==
    LET matches == {k \in DOMAIN bonds : IsEquivalentFixedBond(bonds[k], bond)}
    IN  IF matches = {} THEN 0
        ELSE CHOOSE k \in matches : \A j \in matches : j <= k

\* index of the first matching bond of the batch, 0 when there is none
equivalent_fixed_bond(bond, bonds) ==
    LET matches == {k \in DOMAIN bonds : IsEquivalentFixedBond(bonds[k], bond)}
    IN  IF matches = {} THEN 0
        ELSE CHOOSE k \in matches : \A j \in matches : k <= j

\* the paired FIXED bond's spread when it parses with benchmark T
\* EquivalentTreasurySpread taking the paired bond's spread over any benchmark
EquivalentTreasurySpread_any_benchmark(bond, bonds) ==
    With(equivalent_fixed_bond(bond, bonds), LAMBDA k :
    With(IF k = 0 THEN Raise("", "no equivalent fixed bond")
         ELSE parse_spread(strip(bonds[k].spread)), LAMBDA equiv :
        IF k # 0 /\ equiv.err = ""
        THEN [treasury |-> TRUE, x |-> equiv.value]
        ELSE [treasury |-> FALSE, x |-> 0]))

EquivalentTreasurySpread(bond, bonds) ==
    With(equivalent_fixed_bond(bond, bonds), LAMBDA k :
    With(IF k = 0 THEN Raise("", "no equivalent fixed bond")
         ELSE parse_spread(strip(bonds[k].spread)), LAMBDA equiv :
        IF k # 0 /\ equiv.err = "" /\ equiv.benchmark = CodeT
        THEN [treasury |-> TRUE, x |-> equiv.value]
        ELSE [treasury |-> FALSE, x |-> 0]))

Classified(benchmark_code, spread_decimal, is_sofr_equivalent) ==
    [err |-> "", msg |-> "", benchmark_code |-> benchmark_code,
     spread_decimal |-> spread_decimal,
     is_sofr_equivalent |-> is_sofr_equivalent]

ClassifyRaise(kind, msg) ==
    [err |-> kind, msg |-> msg, benchmark_code |-> NoText, spread_decimal |-> 0,
     is_sofr_equivalent |-> FALSE]

\* resolution of (benchmark_code, spread_decimal, is_sofr_equivalent)
\* Classify with an override that keeps the FLOAT bond's own spread number
Classify_keeping_quote(bond, bonds) ==
    With(strip(bond.spread), LAMBDA spread_string :
    With(upper(bond.cpnType), LAMBDA cpn_type :
    With(EquivalentTreasurySpread(bond, bonds), LAMBDA equiv :
    With(parse_spread(spread_string), LAMBDA parsed :
        IF spread_string = <<>>
        THEN ClassifyRaise("ValueError", "empty spread field")
        ELSE IF IsExplicitSofrEquivalent(bond)
        THEN IF cpn_type = StrFLOAT
             THEN Classified(CodeT, equiv.x, TRUE)
             ELSE Classified(CodeT, 0, TRUE)
        ELSE IF ~SpreadFullMatch(spread_string)
        THEN ClassifyRaise("ValueError", "invalid spread format")
        ELSE IF cpn_type = StrFLOAT /\ parsed.benchmark = CodeS /\ equiv.treasury
        THEN Classified(CodeT, parsed.value, TRUE)
        ELSE IF cpn_type = StrFLOAT /\ parsed.benchmark = CodeS
                /\ parsed.value = 0
        THEN Classified(CodeT, equiv.x, TRUE)
        ELSE Classified(parsed.benchmark, parsed.value, FALSE)))))

Classify(bond, bonds) ==
    With(strip(bond.spread), LAMBDA spread_string :
    With(upper(bond.cpnType), LAMBDA cpn_type :
    With(EquivalentTreasurySpread(bond, bonds), LAMBDA equiv :
    With(parse_spread(spread_string), LAMBDA parsed :
        IF spread_string = <<>>
        THEN ClassifyRaise("ValueError", "empty spread field")
        ELSE IF IsExplicitSofrEquivalent(bond)
        THEN IF cpn_type = StrFLOAT
             THEN Classified(CodeT, equiv.x, TRUE)
             ELSE Classified(CodeT, 0, TRUE)
        ELSE IF ~SpreadFullMatch(spread_string)
        THEN ClassifyRaise("ValueError", "invalid spread format")
        ELSE IF cpn_type = StrFLOAT /\ parsed.benchmark = CodeS /\ equiv.treasury
        THEN Classified(CodeT, equiv.x, TRUE)
        ELSE IF cpn_type = StrFLOAT /\ parsed.benchmark = CodeS
                /\ parsed.value = 0
        THEN Classified(CodeT, equiv.x, TRUE)
        ELSE Classified(parsed.benchmark, parsed.value, FALSE)))))

\* the SOFR table handed to every bond of the request
all_tenors_sofr_data(bonds, req) ==
    LET unique_tenors ==
            {IntToDigits(PyInt(bonds[k].tenor).value) :
                k \in {j \in DOMAIN bonds : PyInt(bonds[j].tenor).err = ""}}
            \ {<<"0">>}
    IN  IF DOMAIN req.sofr_spread_data # {} THEN req.sofr_spread_data
        ELSE [t \in unique_tenors \cap DOMAIN SOFR_SPREADS |-> SOFR_SPREADS[t]]

has_excel_data(req) ==
    \/ DOMAIN req.benchmark_rates # {}
    \/ DOMAIN req.spot_rates # {}
    \/ DOMAIN req.funding_rates # {}
    \/ DOMAIN req.fair_value_curves # {}
    \/ DOMAIN req.sofr_spread_data # {}

MarketDataError(kind, msg) ==
    [error |-> msg, err_class |-> kind, benchmark_rate |-> 0,
     benchmark_code |-> NoText, spread_decimal |-> 0, fair_ytm_local |-> 0,
     funding_rates |-> <<>>, sofr_spread_data |-> <<>>,
     sofr_swap_rate |-> NoneNum, sofr_equivalent_spread |-> NoneNum,
     sofr_equivalent_bond_yield |-> NoneNum,
     fixed_equivalent_yield |-> NoneNum, is_sofr_equivalent |-> FALSE,
     ccy |-> NoText, tenor |-> NoText]

\* one iteration of the per-bond loop: the entry appended to market_data_results
MarketDataFor(k, bonds, req) ==
    With(Classify(bonds[k], bonds), LAMBDA cls :
    With([bonds[k] EXCEPT !.benchmark = cls.benchmark_code], LAMBDA bond :
    With(has_excel_data(req), LAMBDA excel :
    With(get_market_context(
             bond, req.use_realtime,
             OrNone(all_tenors_sofr_data(bonds, req)),
             IF excel THEN Some(req.benchmark_rates) ELSE None,
             IF excel THEN Some(req.funding_rates) ELSE None,
             IF excel THEN Some(req.fair_value_curves) ELSE None,
             "unavailable"), LAMBDA market_context :
    With(calculate_sofr_swap_rate(bond.tenor, market_context.sofr_spread_data),
         LAMBDA swap :
    With(\/ Contains(lower(bond.spread), StrSofrEquivalent)
         \/ Contains(lower(bond.bondName), StrSofrEquivalent), LAMBDA named :
    With(/\ swap.err = ""
         /\ cls.benchmark_code = CodeT
         /\ (cls.is_sofr_equivalent \/ named), LAMBDA equivalent :
    With(calculate_sofr_equivalent_spread(
             cls.spread_decimal, market_context.benchmark_rate,
             market_context.sofr_spread_data[
                 IntToDigits(PyInt(bond.tenor).value)].T_SOFR_SPREAD),
         LAMBDA z :
    With(/\ swap.err = ""
         /\ cls.benchmark_code = CodeS
         /\ ~cls.is_sofr_equivalent, LAMBDA floating :
    With(cls.is_sofr_equivalent /\ swap.err = "", LAMBDA shown_as_sofr :
        IF cls.err # "" THEN MarketDataError(cls.err, cls.msg)
        ELSE IF market_context.err # ""
        THEN MarketDataError(market_context.err, market_context.msg)
        ELSE [error |-> "", err_class |-> "",
              benchmark_rate |-> IF shown_as_sofr THEN swap.value
                                 ELSE market_context.benchmark_rate,
              benchmark_code |-> IF shown_as_sofr THEN CodeS
                                 ELSE cls.benchmark_code,
              spread_decimal |-> cls.spread_decimal,
              fair_ytm_local |-> market_context.fair_ytm_local,
              funding_rates |-> market_context.funding_rates,
              sofr_spread_data |-> market_context.sofr_spread_data,
              sofr_swap_rate |->
                  IF swap.err = "" THEN [some |-> TRUE, v |-> swap.value]
                  ELSE NoneNum,
              sofr_equivalent_spread |->
                  IF equivalent THEN [some |-> TRUE, v |-> z] ELSE NoneNum,
              sofr_equivalent_bond_yield |->
                  IF equivalent THEN [some |-> TRUE, v |-> swap.value + z]
                  ELSE NoneNum,
              fixed_equivalent_yield |->
                  IF floating
                  THEN [some |-> TRUE, v |-> swap.value + cls.spread_decimal]
                  ELSE NoneNum,
              is_sofr_equivalent |-> cls.is_sofr_equivalent,
              ccy |-> market_context.ccy,
              tenor |-> market_context.tenor]))))))))))

\* the bond as the loop leaves it: 'benchmark' written once it is resolved
BondAfterMarketData(k, bonds) ==
    With(Classify(bonds[k], bonds), LAMBDA cls :
        IF cls.err # "" THEN bonds[k]
        ELSE [bonds[k] EXCEPT !.benchmark = cls.benchmark_code])

(***************************************************************************)
(* services/online_market_data_service.py:                                 *)
(* fetch_market_data_for_bonds_online, over the tables that                *)
(* fetch_all_market_data_excel_format returned (a record shaped like the   *)
(* request body of /fetchMarketData).                                      *)
(***************************************************************************)
OnlineIsExplicitSofrEquivalent(bond) ==
    LET spread_lower == strip(lower(strip(bond.spread)))
        bond_name_lower == lower(bond.bondName)
        cpn_type == upper(bond.cpnType)
    IN  \/ Contains(spread_lower, StrSofrEquivalent)
        \/ Contains(spread_lower, StrSofrHyphenEquivalent)
        \/ spread_lower = StrSofrEquivalent
        \/ spread_lower = StrSofrHyphenEquivalent
        \/ Contains(bond_name_lower, StrSofrEquivalent)
        \/ (cpn_type = StrFLOAT /\ spread_lower \in SofrZeroSpreads)

OnlineIsEquivalentFixedBond(other_bond, bond) ==
    /\ other_bond.bondName # bond.bondName
    /\ upper(other_bond.cpnType) = StrFIXED
    /\ other_bond.ccy = bond.ccy
    /\ PyStr(other_bond.tenor) = PyStr(bond.tenor)
    /\ other_bond.rating = bond.rating
    /\ other_bond.sector = bond.sector

\* the loop with break: index of the first matching bond, 0 when none
online_equivalent_fixed_bond(bond, bonds) ==
    LET matches ==
            {k \in DOMAIN bonds : OnlineIsEquivalentFixedBond(bonds[k], bond)}
    IN  IF matches = {} THEN 0
        ELSE CHOOSE k \in matches : \A j \in matches : k <= j

OnlineEquivalentTreasurySpread(bond, bonds) ==
    LET k == online_equivalent_fixed_bond(bond, bonds)
        equiv == IF k = 0 THEN Raise("", "no equivalent fixed bond")
                 ELSE parse_spread(strip(bonds[k].spread))
    IN  IF k # 0 /\ equiv.err = "" /\ equiv.benchmark = CodeT
        THEN [treasury |-> TRUE, x |-> equiv.value]
        ELSE [treasury |-> FALSE, x |-> 0]

\* OnlineClassify with an override that keeps the FLOAT bond's own spread
OnlineClassify_keeping_quote(bond, bonds) ==
    LET spread_string == strip(bond.spread)
        cpn_type == upper(bond.cpnType)
        equiv == OnlineEquivalentTreasurySpread(bond, bonds)
        parsed == parse_spread(spread_string)
    IN  IF spread_string = <<>>
        THEN ClassifyRaise("ValueError", "empty spread field")
        ELSE IF OnlineIsExplicitSofrEquivalent(bond)
        THEN IF cpn_type = StrFLOAT
             THEN Classified(CodeT, equiv.x, TRUE)
             ELSE Classified(CodeT, 0, TRUE)
        ELSE IF ~SpreadFullMatch(spread_string)
        THEN ClassifyRaise("ValueError", "invalid spread format")
        ELSE IF cpn_type = StrFLOAT /\ parsed.benchmark = CodeS /\ equiv.treasury
        THEN Classified(CodeT, parsed.value, TRUE)
        ELSE IF cpn_type = StrFLOAT /\ parsed.benchmark = CodeS
                /\ parsed.value = 0
        THEN Classified(CodeT, equiv.x, TRUE)
        ELSE Classified(parsed.benchmark, parsed.value, FALSE)

\* lines 94-236: resolution of (benchmark_code, spread_decimal,
\* is_sofr_equivalent)
OnlineClassify(bond, bonds) ==
    LET spread_string == strip(bond.spread)
        cpn_type == upper(bond.cpnType)
        equiv == OnlineEquivalentTreasurySpread(bond, bonds)
        parsed == parse_spread(spread_string)
    IN  IF spread_string = <<>>
        THEN ClassifyRaise("ValueError", "empty spread field")
        ELSE IF OnlineIsExplicitSofrEquivalent(bond)
        THEN IF cpn_type = StrFLOAT
             THEN Classified(CodeT, equiv.x, TRUE)
             ELSE Classified(CodeT, 0, TRUE)
        ELSE IF ~SpreadFullMatch(spread_string)
        THEN ClassifyRaise("ValueError", "invalid spread format")
        ELSE IF cpn_type = StrFLOAT /\ parsed.benchmark = CodeS /\ equiv.treasury
        THEN Classified(CodeT, equiv.x, TRUE)
        ELSE IF cpn_type = StrFLOAT /\ parsed.benchmark = CodeS
                /\ parsed.value = 0
        THEN Classified(CodeT, equiv.x, TRUE)
        ELSE Classified(parsed.benchmark, parsed.value, FALSE)

\* the SOFR table handed to every bond: the fetched one, else the config.py
\* entries of the batch's tenors
online_all_tenors_sofr_data(bonds, fetched) ==
    LET unique_tenors ==
            {IntToDigits(PyInt(bonds[k].tenor).value) :
                k \in {j \in DOMAIN bonds : PyInt(bonds[j].tenor).err = ""}}
            \ {<<"0">>}
    IN  IF DOMAIN fetched.sofr_spread_data # {} THEN fetched.sofr_spread_data
        ELSE [t \in unique_tenors \cap DOMAIN SOFR_SPREADS |-> SOFR_SPREADS[t]]

\* one iteration of the per-bond loop (lines 91-365)
OnlineMarketDataFor(k, bonds, fetched) ==
    LET cls == OnlineClassify(bonds[k], bonds)
        bond == [bonds[k] EXCEPT !.benchmark = cls.benchmark_code]
        market_context ==
            get_market_context(
                bond, FALSE,
                OrNone(online_all_tenors_sofr_data(bonds, fetched)),
                Some(fetched.benchmark_rates), Some(fetched.funding_rates),
                Some(fetched.fair_value_curves), "unavailable")
        swap == calculate_sofr_swap_rate(bond.tenor,
                                         market_context.sofr_spread_data)
        named == \/ Contains(lower(bond.spread), StrSofrEquivalent)
                 \/ Contains(lower(bond.bondName), StrSofrEquivalent)
        equivalent == /\ swap.err = ""
                      /\ cls.benchmark_code = CodeT
                      /\ (cls.is_sofr_equivalent \/ named)
        z == calculate_sofr_equivalent_spread(
                 cls.spread_decimal, market_context.benchmark_rate,
                 market_context.sofr_spread_data[
                     IntToDigits(PyInt(bond.tenor).value)].T_SOFR_SPREAD)
        floating == /\ swap.err = ""
                    /\ cls.benchmark_code = CodeS
                    /\ ~cls.is_sofr_equivalent
        shown_as_sofr == cls.is_sofr_equivalent /\ swap.err = ""
    IN  IF cls.err # "" THEN MarketDataError(cls.err, cls.msg)
        ELSE IF market_context.err # ""
        THEN MarketDataError(market_context.err, market_context.msg)
        ELSE [error |-> "", err_class |-> "",
              benchmark_rate |-> IF shown_as_sofr THEN swap.value
                                 ELSE market_context.benchmark_rate,
              benchmark_code |-> IF shown_as_sofr THEN CodeS
                                 ELSE cls.benchmark_code,
              spread_decimal |-> cls.spread_decimal,
              fair_ytm_local |-> market_context.fair_ytm_local,
              funding_rates |-> market_context.funding_rates,
              sofr_spread_data |-> market_context.sofr_spread_data,
              sofr_swap_rate |->
                  IF swap.err = "" THEN [some |-> TRUE, v |-> swap.value]
                  ELSE NoneNum,
              sofr_equivalent_spread |->
                  IF equivalent THEN [some |-> TRUE, v |-> z] ELSE NoneNum,
              sofr_equivalent_bond_yield |->
                  IF equivalent THEN [some |-> TRUE, v |-> swap.value + z]
                  ELSE NoneNum,
              fixed_equivalent_yield |->
                  IF floating
                  THEN [some |-> TRUE, v |-> swap.value + cls.spread_decimal]
                  ELSE NoneNum,
              is_sofr_equivalent |-> cls.is_sofr_equivalent,
              ccy |-> market_context.ccy,
              tenor |-> market_context.tenor]

\* the market_data list of the online service
fetch_market_data_for_bonds_online(bonds, fetched) ==
    [k \in DOMAIN bonds |-> OnlineMarketDataFor(k, bonds, fetched)]

(***************************************************************************)
(* services/analysis_service.py: run_single_bond_analysis,                 *)
(* run_full_analysis.  Values in basis points (the *_bps fields) are       *)
(* counted in units of 1/BP bp, so x * BPS_CONVERSION keeps the number of  *)
(* units of x.                                                             *)
(***************************************************************************)
\* round(x, n): to the nearest multiple of unit, ties to the even multiple
PyRound(x, unit) ==
    LET q == x \div unit
        r == x % unit
    IN  IF 2 * r < unit THEN q * unit
        ELSE IF 2 * r > unit THEN (q + 1) * unit
        ELSE IF q % 2 = 0 THEN q * unit
        ELSE (q + 1) * unit

NoSteps ==
    [offered_yield_local |-> 0, offered_yield_local_bps |-> 0,
     fair_ytm_local |-> 0, fair_ytm_local_bps |-> 0, fx_cost |-> 0,
     fx_cost_bps |-> 0, benchmark_rate |-> 0, spread_decimal |-> 0,
     spread_bps |-> 0, cpn_type |-> NoText, benchmark_code |-> NoText,
     sofr_swap_rate |-> NoneNum, t_sofr_spread |-> NoneNum,
     sofr_equivalent_spread |-> NoneNum]

\* what the try block of run_single_bond_analysis ends with: the returned
\* result (err = "") or the exception raised inside it; benchmark is the value
\* written to bond['benchmark'] by then (NoText: not written)
Outcome(kind, msg, benchmark, fields) ==
    [err |-> kind, msg |-> msg, benchmark |-> benchmark, fields |-> fields]

NoFields ==
    [offered_hedged_yield_bps |-> 0, fair_hedged_yield_bps |-> 0,
     excess_yield_bps |-> 0, fx_hedge_cost_bps |-> 0, assessment |-> "",
     calculation_steps |-> NoSteps, data_source |-> ""]

\* market_context built from the review-page entry of the bond
ReviewContext(review_market_data) ==
    [err |-> "", msg |-> "",
     benchmark_rate |-> review_market_data.benchmark_rate,
     market_rates |-> [c \in {review_market_data.benchmark_code} |->
                          review_market_data.benchmark_rate],
     funding_rates |-> review_market_data.funding_rates,
     sofr_spread_data |-> review_market_data.sofr_spread_data,
     fair_ytm_local |-> review_market_data.fair_ytm_local,
     ccy |-> review_market_data.ccy, tenor |-> review_market_data.tenor,
     data_source |-> "Review Page (User Reviewed)"]

\* lines 256-311: the breakdown and the result, after the comparison
AnalysisResult(bond, market_context, benchmark_code, spread_decimal, offered_yield_local, hedged, fair_hedged) ==
    With(hedged.value - fair_hedged.value, LAMBDA excess_yield :
    With(benchmark_code = CodeS /\ upper(bond.cpnType) = StrFIXED,
         LAMBDA fixed_on_sofr :
    With(benchmark_code = CodeT
         /\ (\/ Contains(lower(bond.spread), StrSofrEquivalent)
             \/ Contains(lower(bond.bondName), StrSofrEquivalent)),
         LAMBDA named :
    With(calculate_sofr_swap_rate(bond.tenor, market_context.sofr_spread_data),
         LAMBDA swap :
    With(market_context.sofr_spread_data[
             IntToDigits(PyInt(bond.tenor).value)].T_SOFR_SPREAD,
         LAMBDA t_sofr_spread :
        IF (fixed_on_sofr \/ named) /\ swap.err # ""
        THEN Outcome(swap.err, swap.msg, benchmark_code, NoFields)
        ELSE Outcome("", "", benchmark_code,
                 [offered_hedged_yield_bps |-> PyRound(hedged.value, BP \div 100),
                  fair_hedged_yield_bps |->
                      PyRound(fair_hedged.value, BP \div 100),
                  excess_yield_bps |-> PyRound(excess_yield, BP \div 100),
                  fx_hedge_cost_bps |-> PyRound(hedged.cost, BP \div 100),
                  assessment |-> determine_assessment(excess_yield),
                  calculation_steps |->
                     [offered_yield_local |-> offered_yield_local,
                      offered_yield_local_bps |->
                          PyRound(offered_yield_local, BP \div 100),
                      fair_ytm_local |-> market_context.fair_ytm_local,
                      fair_ytm_local_bps |->
                          PyRound(market_context.fair_ytm_local, BP \div 100),
                      fx_cost |-> hedged.cost,
                      fx_cost_bps |-> PyRound(hedged.cost, BP \div 100),
                      benchmark_rate |-> market_context.benchmark_rate,
                      spread_decimal |-> spread_decimal,
                      spread_bps |-> PyRound(spread_decimal, BP),
                      cpn_type |-> bond.cpnType,
                      benchmark_code |-> benchmark_code,
                      sofr_swap_rate |->
                          IF fixed_on_sofr \/ named
                          THEN [some |-> TRUE, v |-> swap.value] ELSE NoneNum,
                      t_sofr_spread |->
                          IF named THEN [some |-> TRUE, v |-> t_sofr_spread]
                          ELSE NoneNum,
                      sofr_equivalent_spread |->
                          IF named
                          THEN [some |-> TRUE,
                                v |-> calculate_sofr_equivalent_spread(
                                          spread_decimal,
                                          market_context.benchmark_rate,
                                          t_sofr_spread)]
                          ELSE NoneNum],
                  data_source |-> market_context.data_source]))))))

\* lines 70-254: market context, offered yield, hedging, once the spread is resolved
AnalysisOfResolved(bond, market_data_map, rt, benchmark_code, resolved_spread) ==
    With(DOMAIN market_data_map # {}
         /\ bond.bondName \in DOMAIN market_data_map, LAMBDA reviewed :
    With(IF reviewed THEN market_data_map[bond.bondName]
         ELSE MarketDataError("", ""), LAMBDA review_market_data :
    With(IF reviewed THEN ReviewContext(review_market_data)
         ELSE get_market_context(bond, TRUE, None, None, None, None, rt),
         LAMBDA market_context :
    With(reviewed => (/\ ~review_market_data.sofr_equivalent_bond_yield.some
                      /\ ~review_market_data.fixed_equivalent_yield.some),
         LAMBDA from_benchmark :
    With(IF reviewed /\ from_benchmark
         THEN review_market_data.spread_decimal ELSE resolved_spread,
         LAMBDA spread_decimal :
    With(IF ~from_benchmark
         THEN IF review_market_data.sofr_equivalent_bond_yield.some
              THEN review_market_data.sofr_equivalent_bond_yield.v
              ELSE review_market_data.fixed_equivalent_yield.v
         ELSE calculate_local_offered_yield(market_context.benchmark_rate,
                                            spread_decimal),
         LAMBDA offered_yield_local :
    With(calculate_usd_hedged_yield(offered_yield_local, bond.ccy,
                                    market_context.funding_rates),
         LAMBDA hedged :
    With(calculate_usd_hedged_yield(market_context.fair_ytm_local, bond.ccy,
                                    market_context.funding_rates),
         LAMBDA fair_hedged :
        IF market_context.err # ""
        THEN Outcome(market_context.err, market_context.msg, benchmark_code,
                     NoFields)
        ELSE IF DOMAIN market_context.funding_rates = {}
        THEN Outcome("ValueError", "Funding rates are missing", benchmark_code,
                     NoFields)
        ELSE IF hedged.err # ""
        THEN Outcome(hedged.err, hedged.msg, benchmark_code, NoFields)
        ELSE IF fair_hedged.err # ""
        THEN Outcome(fair_hedged.err, fair_hedged.msg, benchmark_code, NoFields)
        ELSE AnalysisResult(bond, market_context, benchmark_code,
                            spread_decimal, offered_yield_local, hedged,
                            fair_hedged)))))))))

\* lines 39-311: the try block
\* the try block fetching the market context before bond['benchmark'] is set
AnalysisBody_context_before_write(bond, market_data_map, rt) ==
    With(strip(bond.spread), LAMBDA spread_string :
    With(lower(spread_string), LAMBDA spread_lower :
    With(\/ Contains(spread_lower, StrSofrEquivalent)
         \/ Contains(spread_lower, StrSofrHyphenEquivalent),
         LAMBDA is_sofr_equivalent :
    With(/\ DOMAIN market_data_map # {}
         /\ bond.bondName # <<>>
         /\ bond.bondName \in DOMAIN market_data_map, LAMBDA reviewed :
    With(parse_spread(spread_string), LAMBDA parsed :
    With(IF is_sofr_equivalent
         THEN IF reviewed THEN market_data_map[bond.bondName].benchmark_code
              ELSE CodeT
         ELSE parsed.benchmark, LAMBDA benchmark_code :
    With(IF is_sofr_equivalent
         THEN IF reviewed THEN market_data_map[bond.bondName].spread_decimal
              ELSE 0
         ELSE parsed.value, LAMBDA spread_decimal :
        IF ~is_sofr_equivalent /\ parsed.err # ""
        THEN Outcome(parsed.err, parsed.msg, NoText, NoFields)
        ELSE AnalysisOfResolved(bond, market_data_map, rt, benchmark_code,
                                spread_decimal))))))))

AnalysisBody(bond, market_data_map, rt) ==
    With(strip(bond.spread), LAMBDA spread_string :
    With(lower(spread_string), LAMBDA spread_lower :
    With(\/ Contains(spread_lower, StrSofrEquivalent)
         \/ Contains(spread_lower, StrSofrHyphenEquivalent),
         LAMBDA is_sofr_equivalent :
    With(/\ DOMAIN market_data_map # {}
         /\ bond.bondName # <<>>
         /\ bond.bondName \in DOMAIN market_data_map, LAMBDA reviewed :
    With(parse_spread(spread_string), LAMBDA parsed :
    With(IF is_sofr_equivalent
         THEN IF reviewed THEN market_data_map[bond.bondName].benchmark_code
              ELSE CodeT
         ELSE parsed.benchmark, LAMBDA benchmark_code :
    With(IF is_sofr_equivalent
         THEN IF reviewed THEN market_data_map[bond.bondName].spread_decimal
              ELSE 0
         ELSE parsed.value, LAMBDA spread_decimal :
        IF ~is_sofr_equivalent /\ parsed.err # ""
        THEN Outcome(parsed.err, parsed.msg, NoText, NoFields)
        ELSE AnalysisOfResolved([bond EXCEPT !.benchmark = benchmark_code],
                                market_data_map, rt, benchmark_code,
                                spread_decimal))))))))

ErrorRecord(bond, error) ==
    [kind |-> "error", name |-> bond.bondName, error |-> error,
     assessment |-> "Error/N/A", ccy |-> NoText, rating |-> "",
     sector |-> NoText, offered_spread |-> NoText, fields |-> NoFields]

\* an exception that leaves run_single_bond_analysis
Propagated(bond, error) ==
    [kind |-> "raised", name |-> bond.bondName, error |-> error,
     assessment |-> "", ccy |-> NoText, rating |-> "", sector |-> NoText,
     offered_spread |-> NoText, fields |-> NoFields]

\* run_single_bond_analysis without the catch-all handler
run_single_bond_analysis_value_errors_only(bond, market_data_map, rt) ==
    With(AnalysisBody(bond, market_data_map, rt), LAMBDA out :
        IF out.err = ""
        THEN [kind |-> "result", name |-> bond.bondName, error |-> "",
              assessment |-> out.fields.assessment, ccy |-> bond.ccy,
              rating |-> bond.rating, sector |-> bond.sector,
              offered_spread |-> bond.spread, fields |-> out.fields]
        ELSE IF out.err = "ValueError" THEN ErrorRecord(bond, out.msg)
        ELSE Propagated(bond, out.msg))

run_single_bond_analysis(bond, market_data_map, rt) ==
    With(AnalysisBody(bond, market_data_map, rt), LAMBDA out :
        IF out.err = ""
        THEN [kind |-> "result", name |-> bond.bondName, error |-> "",
              assessment |-> out.fields.assessment, ccy |-> bond.ccy,
              rating |-> bond.rating, sector |-> bond.sector,
              offered_spread |-> bond.spread, fields |-> out.fields]
        ELSE IF out.err = "ValueError" THEN ErrorRecord(bond, out.msg)
        ELSE ErrorRecord(bond, "Critical Error"))

\* the bond as run_single_bond_analysis leaves it
\* the bond as an analysis that also stores the stripped spread text leaves it
BondAfterAnalysis_storing_spread(bond, market_data_map, rt) ==
    With(AnalysisBody(bond, market_data_map, rt), LAMBDA out :
        IF out.benchmark = NoText THEN bond
        ELSE [bond EXCEPT !.benchmark = out.benchmark,
                          !.spread = upper(strip(bond.spread))])

BondAfterAnalysis(bond, market_data_map, rt) ==
    With(AnalysisBody(bond, market_data_map, rt), LAMBDA out :
        IF out.benchmark = NoText THEN bond
        ELSE [bond EXCEPT !.benchmark = out.benchmark])

\* the loop of run_full_analysis from bond k on; an exception leaving
\* run_single_bond_analysis ends the loop and the call
RECURSIVE run_full_analysis_from(_, _, _, _, _)
run_full_analysis_from(k, ingested, market_data_map, rt, acc) ==
    IF k > Len(ingested) THEN [raised |-> FALSE, results |-> acc]
    ELSE With(run_single_bond_analysis(ingested[k], market_data_map, rt),
              LAMBDA r :
             IF r.kind = "raised" THEN [raised |-> TRUE, results |-> <<>>]
             ELSE run_full_analysis_from(k + 1, ingested, market_data_map, rt,
                                         Append(acc, r)))

\* run_full_analysis that drops the bonds whose analysis failed
run_full_analysis_dropping_errors(ingested, market_data_map, rt) ==
    With(run_full_analysis_from(1, ingested, market_data_map, rt, <<>>),
         LAMBDA full :
        [full EXCEPT !.results = SelectSeq(full.results,
                                           LAMBDA r : r.kind # "error")])

\* run_full_analysis that gives up on the batch at the first failed bond
run_full_analysis_stopping_at_error(ingested, market_data_map, rt) ==
    With(run_full_analysis_from(1, ingested, market_data_map, rt, <<>>),
         LAMBDA full :
        [full EXCEPT !.results =
            SubSeq(full.results, 1,
                   CHOOSE n \in 0 .. Len(full.results) :
                      /\ \A j \in 1 .. n - 1 : full.results[j].kind # "error"
                      /\ \/ n = Len(full.results)
                         \/ n > 0 /\ full.results[n].kind = "error")])

run_full_analysis(ingested, market_data_map, rt) ==
    run_full_analysis_from(1, ingested, market_data_map, rt, <<>>)

(***************************************************************************)
(* Inputs of the engine functions.                                         *)
(***************************************************************************)
BenchmarkTexts ==
    {<<"T">>, <<"t">>, <<"G">>, <<"S">>, <<"M","S">>, <<"m","s">>, <<>>,
     <<"T","2">>}

SignTexts == {<<"+">>, <<"-">>, <<" ">>, <<>>}

DigitTexts ==
    {IntToDigits(n) : n \in 0 .. MaxSpreadBps} \cup {<<>>, <<"0","7">>}

SuffixTexts ==
    {<<"b","p","s">>, <<"B","P","S">>, <<"B","p","s">>, <<"b","p">>,
     <<" ","b","p","s">>}

TrailerTexts == {<<>>, <<"x">>, <<" ","p","a">>}

TenorKeys == {<<"1">>, <<"2">>, <<"1","0">>}

SofrEntries ==
    [T_RATE : {344 * BP, 400 * BP}, T_SOFR_SPREAD : {-10 * BP, 0, 25 * BP}]

SofrTables == UNION {[keys -> SofrEntries] : keys \in SUBSET TenorKeys}

TenorInputs ==
    {NumTenor(1), NumTenor(2), NumTenor(7), NumTenor(10), StrTenor(<<"1">>),
     StrTenor(<<"0","2">>), StrTenor(<<>>), NullTenor}

FundingTables ==
    UNION {[ccys -> {0, -10 * BP, 450 * BP, 500 * BP}] :
              ccys \in SUBSET {USD, CAD}}

LocalYields == {-20 * BP, 0, 394 * BP}

ExcessInputs ==
    {k * (BP \div 4) : k \in -(4 * MaxExcessBps) .. (4 * MaxExcessBps)}

Pending == Raise("", "pending")

(***************************************************************************)
(* Inputs of the pipeline: the bond batch and the request's tables.        *)
(***************************************************************************)
TextT50 == <<"T","+","5","0","b","p","s">>

TextS25 == <<"S","+","2","5","b","p","s">>

TextS0 == <<"S","+","0","b","p","s">>

Quote(cpnType, ccy, tenor, spread) ==
    [cpnType |-> cpnType, ccy |-> ccy, tenor |-> tenor, rating |-> "A",
     sector |-> TECH, spread |-> spread]

Quotes ==
    {Quote(StrFIXED, CAD, NumTenor(1), TextT50),
     Quote(StrFIXED, USD, NumTenor(5), TextT50),
     Quote(StrFLOAT, USD, NumTenor(7), TextS25),
     Quote(StrFLOAT, USD, NumTenor(7), TextS0),
     Quote(StrFLOAT, USD, StrTenor(<<"5">>), TextS25),
     Quote(StrFIXED, USD, NullTenor, TextT50)}

\* the k-th bond of a batch is named by the k-th letter
BondOf(quote, k) ==
    [bondName |-> <<UpperLetters[k]>>, cpnType |-> quote.cpnType,
     ccy |-> quote.ccy, tenor |-> quote.tenor, rating |-> quote.rating,
     sector |-> quote.sector, spread |-> quote.spread, benchmark |-> NoText]

Batches ==
    UNION {{[k \in 1 .. n |-> BondOf(qs[k], k)] : qs \in [1 .. n -> Quotes]} :
              n \in 1 .. MaxBatch}

ConfigRequest ==
    [use_realtime |-> FALSE, benchmark_rates |-> <<>>, spot_rates |-> <<>>,
     funding_rates |-> <<>>, fair_value_curves |-> <<>>,
     sofr_spread_data |-> <<>>]

ExcelRequest ==
    [use_realtime |-> FALSE,
     benchmark_rates |-> [c \in {CodeT} |-> 340 * BP],
     spot_rates |-> <<>>,
     funding_rates |-> [c \in {USD} |-> 520 * BP],
     fair_value_curves |->
        [key \in {CurveKey(USD, TECH), CurveKey(CAD, TECH)} |->
            [A |-> [t \in {<<"1">>, <<"5">>, <<"7">>} |->
                       IF t = <<"1">> THEN 395 * BP ELSE 440 * BP]]],
     sofr_spread_data |->
        [t \in {<<"5">>} |-> [T_RATE |-> 340 * BP, T_SOFR_SPREAD |-> -10 * BP]]]

Requests == {ConfigRequest, ExcelRequest}

NoResults == [status |-> 0, via |-> "", results |-> <<>>]

(***************************************************************************)
(* Engine specification: one call of one engine function.                  *)
(***************************************************************************)
Idle == [fn |-> "none", done |-> TRUE]

PipeIdle ==
    /\ pc = "engine"
    /\ ingested_bonds = <<>>
    /\ request = ConfigRequest
    /\ realtime = "unavailable"
    /\ market_data_results = <<>>
    /\ reviewed_map = <<>>
    /\ results = NoResults

EngineInit ==
    /\ PipeIdle
    /\ \/ \E b \in BenchmarkTexts, sg \in SignTexts, d \in DigitTexts,
             sfx \in SuffixTexts, tr \in TrailerTexts :
             call = [fn |-> "parse_spread", done |-> FALSE,
                     benchmark_text |-> b, sign |-> sg, digits |-> d,
                     suffix |-> sfx, trailer |-> tr,
                     spread_string |-> b \o sg \o d \o sfx \o tr,
                     ret |-> Pending]
       \/ \E t \in TenorInputs, tab \in SofrTables :
             call = [fn |-> "calculate_sofr_swap_rate", done |-> FALSE,
                     tenor |-> t, sofr_spread_data |-> tab, ret |-> Pending]
       \/ \E y \in LocalYields, c \in {USD, CAD, EUR}, f \in FundingTables :
             call = [fn |-> "calculate_usd_hedged_yield", done |-> FALSE,
                     local_yield |-> y, ccy |-> c, funding_rates |-> f,
                     ret |-> Pending]
       \/ \E e \in ExcessInputs :
             call = [fn |-> "determine_assessment", done |-> FALSE,
                     excess_yield |-> e, ret |-> "pending"]

CallParseSpread ==
    /\ call.fn = "parse_spread" /\ ~call.done
    /\ call' = [call EXCEPT !.done = TRUE,
                            !.ret = parse_spread(call.spread_string)]
    /\ UNCHANGED pipeVars

CallSofrSwapRate ==
    /\ call.fn = "calculate_sofr_swap_rate" /\ ~call.done
    /\ call' = [call EXCEPT !.done = TRUE,
                            !.ret = calculate_sofr_swap_rate(
                                        call.tenor, call.sofr_spread_data)]
    /\ UNCHANGED pipeVars

CallUsdHedgedYield ==
    /\ call.fn = "calculate_usd_hedged_yield" /\ ~call.done
    /\ call' = [call EXCEPT !.done = TRUE,
                            !.ret = calculate_usd_hedged_yield(
                                        call.local_yield, call.ccy,
                                        call.funding_rates)]
    /\ UNCHANGED pipeVars

CallDetermineAssessment ==
    /\ call.fn = "determine_assessment" /\ ~call.done
    /\ call' = [call EXCEPT !.done = TRUE,
                            !.ret = determine_assessment(call.excess_yield)]
    /\ UNCHANGED pipeVars

EngineNext ==
    \/ CallParseSpread
    \/ CallSofrSwapRate
    \/ CallUsdHedgedYield
    \/ CallDetermineAssessment

EngineSpec == EngineInit /\ [][EngineNext]_vars

Called(fn) == call.fn = fn /\ call.done

(***************************************************************************)
(* The request pipeline: /fetchMarketData, the review page, /analyze.      *)
(***************************************************************************)
Init ==
    /\ call = Idle
    /\ pc = "ingested"
    /\ ingested_bonds \in Batches
    /\ request \in Requests
    /\ realtime = "unavailable"
    /\ market_data_results = <<>>
    /\ reviewed_map = <<>>
    /\ results = NoResults

\* the market_data_map of the /analyze request body: by bond name, the
\* market_data entry that /fetchMarketData returned for the bond; a bond that
\* was answered with an error has no market_data and no entry
ReviewPageMap(bonds, fetched) ==
    LET ok == {k \in DOMAIN bonds : fetched[k].error = ""}
    IN  [name \in {bonds[k].bondName : k \in ok} |->
            fetched[CHOOSE k \in ok : bonds[k].bondName = name]]

\* POST /fetchMarketData with use_realtime = false
FetchMarketData ==
    /\ pc = "ingested"
    /\ ~request.use_realtime
    /\ With([k \in DOMAIN ingested_bonds |->
                MarketDataFor(k, ingested_bonds, request)], LAMBDA fetched :
           /\ market_data_results' = fetched
           /\ reviewed_map' = ReviewPageMap(ingested_bonds, fetched))
    /\ ingested_bonds' = [k \in DOMAIN ingested_bonds |->
                             BondAfterMarketData(k, ingested_bonds)]
    /\ pc' = "reviewed"
    /\ UNCHANGED <<call, request, realtime, results>>

\* handle_analysis: the response to POST /analyze
\* rt is what the realtime fetch yields for the bonds that need it
handle_analysis(bonds, market_data_map, via, rt) ==
    /\ With(run_full_analysis(bonds, market_data_map, rt), LAMBDA out :
           results' = [status |-> IF out.raised THEN 500 ELSE 200,
                       via |-> via, results |-> out.results])
    /\ ingested_bonds' = [k \in DOMAIN bonds |->
                             BondAfterAnalysis(bonds[k], market_data_map, rt)]
    /\ realtime' = rt
    /\ pc' = "analyzed"

\* POST /analyze with the bonds and the market data of the review page
AnalyzeReviewed ==
    /\ pc = "reviewed"
    /\ \E rt \in RealtimeModes :
          /\ \/ rt = realtime
             \/ \E k \in DOMAIN ingested_bonds :
                   ingested_bonds[k].bondName \notin DOMAIN reviewed_map
          /\ handle_analysis(ingested_bonds, reviewed_map, "review", rt)
    /\ UNCHANGED <<call, request, market_data_results, reviewed_map>>

\* POST /analyze with a bare list of bonds (no market data supplied)
AnalyzeBondsOnly ==
    /\ pc = "ingested"
    /\ \E rt \in RealtimeModes :
          handle_analysis(ingested_bonds, <<>>, "bonds", rt)
    /\ reviewed_map' = <<>>
    /\ UNCHANGED <<call, request, market_data_results>>

Next ==
    \/ FetchMarketData
    \/ AnalyzeReviewed
    \/ AnalyzeBondsOnly

Spec == Init /\ [][Next]_vars

(***************************************************************************)
(* Review specification: POST /fetchMarketData, then POST /analyze with    *)
(* the review page's market data, over batches that hold every signal of   *)
(* the classifier of app.py:246-388 (marker in the spread text, marker in  *)
(* the bond name, S+0bps, S+XXbps with and without a paired FIXED bond).   *)
(***************************************************************************)
TextG10 == <<"G","+","1","0","b","p","s">>

TextSofrEquivalent ==
    <<"S","O","F","R"," ","e","q","u","i","v","a","l","e","n","t">>

TextSofrHyphenEquivalent ==
    <<"S","O","F","R","-","E","q","u","i","v","a","l","e","n","t">>

NameSofrEquivalent ==
    <<" ","S","O","F","R"," ","E","q","u","i","v","a","l","e","n","t">>

NameSofrHyphenEquivalent ==
    <<" ","S","o","f","r","-","e","q","u","i","v","a","l","e","n","t">>

\* a USD TECH A quote whose bond name gets the suffix tag
TaggedQuote(cpnType, tenor, spread, tag) ==
    [cpnType |-> cpnType, ccy |-> USD, tenor |-> tenor, rating |-> "A",
     sector |-> TECH, spread |-> spread, tag |-> tag]

ReviewQuotes ==
    {TaggedQuote(StrFIXED, NumTenor(1), TextT50, <<>>),
     TaggedQuote(StrFIXED, NumTenor(1), TextG10, <<>>),
     TaggedQuote(StrFIXED, NumTenor(1), TextSofrEquivalent, <<>>),
     TaggedQuote(StrFIXED, NumTenor(1), TextT50, NameSofrEquivalent),
     TaggedQuote(StrFIXED, NumTenor(5), TextT50, <<>>),
     TaggedQuote(StrFLOAT, NumTenor(1), TextSofrHyphenEquivalent, <<>>),
     TaggedQuote(StrFLOAT, NumTenor(1), TextS0, <<>>),
     TaggedQuote(StrFLOAT, NumTenor(1), TextS25, <<>>),
     TaggedQuote(StrFLOAT, NumTenor(1), TextS25, NameSofrEquivalent),
     TaggedQuote(StrFLOAT, NumTenor(1), TextS25, NameSofrHyphenEquivalent)}

TaggedBondOf(quote, k) ==
    [bondName |-> <<UpperLetters[k]>> \o quote.tag, cpnType |-> quote.cpnType,
     ccy |-> quote.ccy, tenor |-> quote.tenor, rating |-> quote.rating,
     sector |-> quote.sector, spread |-> quote.spread, benchmark |-> NoText]

ReviewBatches ==
    UNION {{[k \in 1 .. n |-> TaggedBondOf(qs[k], k)] :
                qs \in [1 .. n -> ReviewQuotes]} : n \in 1 .. MaxBatch}

ReviewInit ==
    /\ call = Idle
    /\ pc = "ingested"
    /\ ingested_bonds \in ReviewBatches
    /\ request = ConfigRequest
    /\ realtime = "unavailable"
    /\ market_data_results = <<>>
    /\ reviewed_map = <<>>
    /\ results = NoResults

ReviewNext ==
    \/ FetchMarketData
    \/ AnalyzeReviewed

ReviewSpec == ReviewInit /\ [][ReviewNext]_vars

(***************************************************************************)
(* Upload specification: the pipeline over uploaded tables that differ in  *)
(* what they hold (a zero benchmark rate, a curve key, a rating or a tenor *)
(* left out, a fair value off the basis-point grid, two funding tables).   *)
(***************************************************************************)
CodeL == <<"L">>

TextL10 == <<"L","+","1","0","b","p","s">>

UploadQuotes ==
    {Quote(StrFIXED, USD, NumTenor(1), TextT50),
     Quote(StrFIXED, CAD, NumTenor(1), TextT50),
     Quote(StrFIXED, USD, NumTenor(1), TextG10),
     Quote(StrFIXED, USD, NumTenor(1), TextL10)}

UploadBatches ==
    UNION {{[k \in 1 .. n |-> BondOf(qs[k], k)] :
                qs \in [1 .. n -> UploadQuotes]} : n \in 1 .. MaxUpload}

\* a 'Curves Information' sheet {curve key: {rating: {tenor: ytm}}}
FairTable(keys, rating, tenor_key, usd_ytm) ==
    [key \in keys |->
        [r \in {rating} |->
            [t \in {tenor_key} |->
                IF key = CurveKey(USD, TECH) THEN usd_ytm ELSE 396 * BP]]]

BothCurves == {CurveKey(USD, TECH), CurveKey(CAD, TECH)}

UploadRequest(benchmark_rates, funding_rates, fair_value_curves) ==
    [use_realtime |-> FALSE, benchmark_rates |-> benchmark_rates,
     spot_rates |-> <<>>, funding_rates |-> funding_rates,
     fair_value_curves |-> fair_value_curves, sofr_spread_data |-> <<>>]

UploadedTreasury == [c \in {CodeT} |-> 340 * BP]

UploadedFunding == [c \in {USD, CAD} |-> IF c = USD THEN 520 * BP ELSE 470 * BP]

UploadRequests ==
    {ConfigRequest,
     UploadRequest(UploadedTreasury, UploadedFunding,
                   FairTable(BothCurves, "A", <<"1">>, 386 * BP)),
     UploadRequest([c \in {CodeT} |-> 0], UploadedFunding,
                   FairTable(BothCurves, "A", <<"1">>, 386 * BP)),
     UploadRequest(UploadedTreasury, [c \in {USD, CAD} |-> 500 * BP],
                   FairTable(BothCurves, "A", <<"1">>, 386 * BP)),
     UploadRequest(UploadedTreasury, UploadedFunding,
                   FairTable({CurveKey(USD, TECH)}, "A", <<"1">>, 386 * BP)),
     UploadRequest(UploadedTreasury, UploadedFunding,
                   FairTable(BothCurves, "AA", <<"1">>, 386 * BP)),
     UploadRequest(UploadedTreasury, UploadedFunding,
                   FairTable(BothCurves, "A", <<"1","0">>, 386 * BP)),
     UploadRequest(UploadedTreasury, UploadedFunding,
                   FairTable(BothCurves, "A", <<"1">>, 385 * BP - 4))}

UploadInit ==
    /\ call = Idle
    /\ pc = "ingested"
    /\ ingested_bonds \in UploadBatches
    /\ request \in UploadRequests
    /\ realtime = "unavailable"
    /\ market_data_results = <<>>
    /\ reviewed_map = <<>>
    /\ results = NoResults

UploadSpec == UploadInit /\ [][Next]_vars

(***************************************************************************)
(* Properties of the engine functions (EngineSpec).                        *)
(***************************************************************************)

\* C3: determine_assessment has strict thresholds: more than +5 bps is Cheap
\* (BUY), less than -5 bps is Rich (PASS), and the whole closed interval
\* [-5 bps, +5 bps], both ends included, is Fair (HOLD).
C3_StrictThresholds ==
    Called("determine_assessment") =>
        /\ call.excess_yield > 5 * BP => call.ret = "Cheap (BUY)"
        /\ call.excess_yield < -5 * BP => call.ret = "Rich (PASS)"
        /\ (call.excess_yield >= -5 * BP /\ call.excess_yield <= 5 * BP)
              => call.ret = "Fair (HOLD)"

C3_Witness ==
    /\ Called("determine_assessment")
    /\ call.excess_yield = 5 * BP
    /\ call.ret = "Fair (HOLD)"

\* the text was formatted as f"{B}{sign}{N}bps" from a letter sequence B, a
\* sign and a non-negative integer N, with any casing of B and of "bps"
WellFormedSpreadCall(N) ==
    /\ call.benchmark_text # <<>>
    /\ \A i \in DOMAIN call.benchmark_text : IsLetter(call.benchmark_text[i])
    /\ call.sign \in {<<"+">>, <<"-">>}
    /\ call.digits = IntToDigits(N)
    /\ lower(call.suffix) = StrBps
    /\ call.trailer = <<>>

\* C5: for every letter sequence B and non-negative integer N,
\* parse_spread("B+Nbps") returns (upper-cased B, N/10000) and
\* parse_spread("B-Nbps") returns (upper-cased B, -N/10000), whatever the
\* casing of B and of the bps suffix.
C5_ParseRoundTrip ==
    Called("parse_spread") =>
        \A N \in 0 .. (MaxSpreadBps + 1) :
            WellFormedSpreadCall(N) =>
                /\ call.ret.err = ""
                /\ call.ret.benchmark = upper(call.benchmark_text)
                /\ call.ret.value * BPS_CONVERSION
                      = (IF call.sign = <<"-">> THEN -N ELSE N) * ONE

C5_Witness ==
    /\ Called("parse_spread")
    /\ WellFormedSpreadCall(MaxSpreadBps)
    /\ call.benchmark_text = <<"m","s">>
    /\ call.suffix = <<"B","P","S">>
    /\ call.sign = <<"-">>
    /\ call.ret.benchmark = <<"M","S">>
    /\ call.ret.value = -MaxSpreadBps * BP

\* C6: parse_spread fails with a format error for every string that does not
\* match the whole pattern ^([A-Z]+)([+-])(\d+)bps$, trailing characters
\* after a valid spread included.
C6_RejectsNonMatching ==
    (Called("parse_spread") /\ ~SpreadFullMatch(call.spread_string))
        => call.ret.err = "ValueError"

\* the key under which the requested tenor is looked up, when it is a number
RequestedTenorKey == IntToDigits(PyInt(call.tenor).value)

\* C7: for every tenor t present in sofrSpreadData,
\* calculate_sofr_swap_rate(t) + T_SOFR_SPREAD(t) = T_RATE(t), for positive,
\* zero and negative T_SOFR_SPREAD.
C7_SwapRatePlusSpreadIsTreasury ==
    (/\ Called("calculate_sofr_swap_rate")
     /\ PyInt(call.tenor).err = ""
     /\ RequestedTenorKey \in DOMAIN call.sofr_spread_data)
        => /\ call.ret.err = ""
           /\ call.ret.value
                 + call.sofr_spread_data[RequestedTenorKey].T_SOFR_SPREAD
              = call.sofr_spread_data[RequestedTenorKey].T_RATE

C7_Witness ==
    /\ Called("calculate_sofr_swap_rate")
    /\ call.tenor = StrTenor(<<"0","2">>)
    /\ <<"2">> \in DOMAIN call.sofr_spread_data
    /\ call.sofr_spread_data[<<"2">>].T_SOFR_SPREAD < 0
    /\ call.ret.err = ""
    /\ call.ret.value > call.sofr_spread_data[<<"2">>].T_RATE

\* C8: calculate_sofr_swap_rate fails with the missing-tenor error whenever
\* the requested tenor is not a key of sofrSpreadData, and a rate it returns
\* is the one of the requested tenor's own entry.
C8_MissingTenorFails ==
    (Called("calculate_sofr_swap_rate") /\ PyInt(call.tenor).err = "") =>
        /\ RequestedTenorKey \notin DOMAIN call.sofr_spread_data
              => /\ call.ret.err = "ValueError"
                 /\ call.ret.msg = "SOFR spread data not available for tenor"
        /\ call.ret.err = ""
              => /\ RequestedTenorKey \in DOMAIN call.sofr_spread_data
                 /\ call.ret.value
                       = call.sofr_spread_data[RequestedTenorKey].T_RATE
                         - call.sofr_spread_data[RequestedTenorKey].T_SOFR_SPREAD

C8_Witness ==
    /\ Called("calculate_sofr_swap_rate")
    /\ call.tenor = NumTenor(7)
    /\ DOMAIN call.sofr_spread_data = {<<"1">>, <<"2">>, <<"1","0">>}
    /\ call.ret.err = "ValueError"

Analyzed == pc = "analyzed"

AssessmentLabels == {"Cheap (BUY)", "Fair (HOLD)", "Rich (PASS)"}

\* the bond was analysed from its review-page entry
FromReview(k) == ingested_bonds[k].bondName \in DOMAIN reviewed_map

\* C1: run_full_analysis over n bonds returns exactly n results, in input
\* order, each carrying the name of its bond; a bond whose analysis fails is
\* an error record {name, error, assessment "Error/N/A"} and every other bond
\* still gets the full result it gets on its own.
C1_BatchResultsInOrder ==
    Analyzed =>
        /\ results.status = 200
        /\ Len(results.results) = Len(ingested_bonds)
        /\ \A k \in DOMAIN ingested_bonds :
              LET r == results.results[k]
              IN  /\ r.name = ingested_bonds[k].bondName
                  /\ r.kind \in {"result", "error"}
                  /\ r.kind = "error" =>
                        (r.error # "" /\ r.assessment = "Error/N/A")
                  /\ r.kind = "result" => r.assessment \in AssessmentLabels
                  /\ r = run_single_bond_analysis(ingested_bonds[k],
                                                  reviewed_map, realtime)

C1_Witness ==
    /\ Analyzed
    /\ Len(ingested_bonds) = 3
    /\ ingested_bonds[2].spread = TextS25
    /\ ingested_bonds[2].tenor = NumTenor(7)
    /\ results.results[1].kind = "result"
    /\ results.results[2].kind = "error"
    /\ results.results[2].name = <<"B">>
    /\ results.results[3].kind = "result"
    /\ results.results[3].name = <<"C">>

\* C2: run_single_bond_analysis never propagates an exception: for every
\* bond, whatever is raised inside it (a ValueError or any other exception),
\* the caller gets either a full result or an error record with assessment
\* "Error/N/A", and the batch call completes.
C2_NeverPropagates ==
    Analyzed =>
        /\ results.status = 200
        /\ DOMAIN results.results = DOMAIN ingested_bonds
        /\ \A k \in DOMAIN results.results :
              LET r == results.results[k]
                  out == AnalysisBody(ingested_bonds[k], reviewed_map, realtime)
              IN  /\ \/ /\ r.kind = "result"
                        /\ r.error = ""
                        /\ r.assessment \in AssessmentLabels
                     \/ /\ r.kind = "error"
                        /\ r.error # ""
                        /\ r.assessment = "Error/N/A"
                        /\ r.fields = NoFields
                  /\ out.err # "" => r.kind = "error"
                  /\ out.err \notin {"", "ValueError"} =>
                        r.error = "Critical Error"

C2_Witness ==
    /\ Analyzed
    /\ \E k \in DOMAIN ingested_bonds :
          /\ ingested_bonds[k].tenor = NullTenor
          /\ AnalysisBody(ingested_bonds[k], reviewed_map, realtime).err
                = "TypeError"
          /\ results.results[k].kind = "error"
          /\ results.results[k].error = "Critical Error"
          /\ results.results[k].assessment = "Error/N/A"

\* the bond is on the plain path: not classified SOFR-equivalent and its
\* benchmark is not S
PlainBond(k) ==
    LET parsed == parse_spread(strip(ingested_bonds[k].spread))
        cls == Classify(ingested_bonds[k], ingested_bonds)
    IN  /\ parsed.err = ""
        /\ parsed.benchmark # CodeS
        /\ cls.err = ""
        /\ ~cls.is_sofr_equivalent

\* the tables the analysis of bond k draws on: the request's Excel table when
\* the bond was reviewed and the table was uploaded, the realtime data when
\* the bond was not reviewed and the fetch succeeded, config.py otherwise
RealtimeInUse(k) == ~FromReview(k) /\ realtime \in {"ok_no_sofr", "ok"}

RealtimeDataOf(k) ==
    fetch_all_realtime_data(realtime, ingested_bonds[k].ccy,
                            IntToDigits(PyInt(ingested_bonds[k].tenor).value))

BenchmarkRateInUse(k, code) ==
    IF FromReview(k) /\ DOMAIN request.benchmark_rates # {}
    THEN request.benchmark_rates[code]
    ELSE IF RealtimeInUse(k) THEN RealtimeDataOf(k).benchmark_rate
    ELSE MARKET_RATES[code]

FundingRatesInUse(k) ==
    IF FromReview(k) /\ DOMAIN request.funding_rates # {}
    THEN request.funding_rates
    ELSE IF RealtimeInUse(k) THEN RealtimeDataOf(k).funding_rates
    ELSE FUNDING_RATES

FairYtmInUse(k) ==
    LET bond == ingested_bonds[k]
        key == CurveKey(bond.ccy, bond.sector)
    IN  IF FromReview(k) /\ key \in DOMAIN request.fair_value_curves
        THEN request.fair_value_curves[key][bond.rating][
                 IntToDigits(PyInt(bond.tenor).value)]
        ELSE FAIR_CURVES[key][bond.rating]

SofrDerived(k) ==
    LET cls == Classify(ingested_bonds[k], ingested_bonds)
    IN  cls.err = "" /\ (cls.is_sofr_equivalent \/ cls.benchmark_code = CodeS)

\* the tenor of bond k has no entry in any SOFR table of the run: neither in
\* the table of the market-data stage nor in a realtime table
TenorMissingFromSofrData(k) ==
    LET i == PyInt(ingested_bonds[k].tenor)
        uploaded == request.sofr_spread_data
    IN  /\ i.err = ""
        /\ IntToDigits(i.value) \notin DOMAIN uploaded
        /\ IntToDigits(i.value) \notin DOMAIN SOFR_SPREADS
        /\ realtime # "ok"

\* C9: a SOFR-derived bond whose tenor is missing from sofrSpreadData ends
\* as an error record when the market-data stage is followed by the analysis
\* stage: no numeric yield and no Cheap/Fair/Rich label is reported for it.
C9_MissingTenorEndsInError ==
    (Analyzed /\ results.via = "review") =>
        \A k \in DOMAIN results.results :
            (SofrDerived(k) /\ TenorMissingFromSofrData(k)) =>
                /\ results.results[k].kind = "error"
                /\ results.results[k].assessment = "Error/N/A"

\* C11: a bond whose funding table lacks the USD rate or the rate of the
\* bond's currency ends as an error record without any hedged yield; when
\* nothing fails before the hedge, the error is the missing-funding-rate
\* error of calculate_usd_hedged_yield.
C11_MissingFundingRateEndsInError ==
    Analyzed =>
        \A k \in DOMAIN results.results :
            ({USD, ingested_bonds[k].ccy} \subseteq DOMAIN FundingRatesInUse(k))
            \/ (/\ results.results[k].kind = "error"
                /\ results.results[k].assessment = "Error/N/A"
                /\ results.results[k].fields = NoFields
                /\ (PlainBond(k) /\ PyInt(ingested_bonds[k].tenor).err = "") =>
                      results.results[k].error = "Funding rate missing for CCY")

\* a CAD bond reviewed against an uploaded funding table holding USD only
C11_Witness ==
    /\ Analyzed
    /\ request = ExcelRequest
    /\ FromReview(1)
    /\ ingested_bonds[1].ccy = CAD
    /\ CAD \notin DOMAIN FundingRatesInUse(1)
    /\ results.results[1].kind = "error"
    /\ results.results[1].error = "Funding rate missing for CCY"
    /\ Len(results.results) > 1
    /\ results.results[2].kind = "result"

(***************************************************************************)
(* Properties of the review flow (ReviewSpec and Spec).                    *)
(***************************************************************************)
Fetched == pc \in {"reviewed", "analyzed"}

\* the SOFR table of the market-data stage: the uploaded one, else config.py
SofrTableInUse ==
    IF DOMAIN request.sofr_spread_data # {} THEN request.sofr_spread_data
    ELSE SOFR_SPREADS

\* the market-data stage answered bond k without error and classified it
\* SOFR-equivalent
ClassifiedSofrEquivalent(k) ==
    /\ market_data_results[k].error = ""
    /\ market_data_results[k].is_sofr_equivalent

TenorKeyOf(k) == IntToDigits(PyInt(ingested_bonds[k].tenor).value)

TenorPresent(k) ==
    /\ PyInt(ingested_bonds[k].tenor).err = ""
    /\ TenorKeyOf(k) \in DOMAIN SofrTableInUse

\* S(t) = T_RATE(t) - T_SOFR_SPREAD(t) for the tenor of bond k
SofrSwapRateOf(k) ==
    SofrTableInUse[TenorKeyOf(k)].T_RATE
    - SofrTableInUse[TenorKeyOf(k)].T_SOFR_SPREAD

\* C12: for a bond classified SOFR-equivalent with baseline x whose tenor t is
\* in the table, the market-data stage reports z = x + T_SOFR_SPREAD(t) and
\* the local yield S(t) + z, and the analysis stage reports that local yield
\* and hedges it.
C12_SofrEquivalentYield ==
    Fetched =>
        \A k \in DOMAIN market_data_results :
            (ClassifiedSofrEquivalent(k) /\ TenorPresent(k)) =>
                LET m == market_data_results[k]
                    x == m.spread_decimal
                    z == x + SofrTableInUse[TenorKeyOf(k)].T_SOFR_SPREAD
                    y_local == SofrSwapRateOf(k) + z
                    funding == m.funding_rates
                    cost == funding[USD] - funding[ingested_bonds[k].ccy]
                IN  /\ m.sofr_swap_rate = [some |-> TRUE, v |-> SofrSwapRateOf(k)]
                    /\ m.sofr_equivalent_spread = [some |-> TRUE, v |-> z]
                    /\ m.sofr_equivalent_bond_yield =
                          [some |-> TRUE, v |-> y_local]
                    /\ Analyzed =>
                          /\ results.results[k].kind = "result"
                          /\ results.results[k].fields.calculation_steps
                                .offered_yield_local = y_local
                          /\ results.results[k].fields.offered_hedged_yield_bps
                                = PyRound(y_local + cost, BP \div 100)

\* the worked example: tenor 1, T_RATE 344 bps, T_SOFR_SPREAD 25 bps, so
\* S = 319 bps; the paired FIXED bond is quoted T+50bps, so z = 75 bps and the
\* local yield is 394 bps
C12_Witness ==
    /\ Analyzed
    /\ Len(ingested_bonds) = 2
    /\ ingested_bonds[1].cpnType = StrFIXED
    /\ ingested_bonds[1].spread = TextT50
    /\ ingested_bonds[2].cpnType = StrFLOAT
    /\ ingested_bonds[2].spread = TextS25
    /\ ClassifiedSofrEquivalent(2)
    /\ TenorKeyOf(2) = <<"1">>
    /\ market_data_results[2].spread_decimal = 50 * BP
    /\ market_data_results[2].sofr_equivalent_spread = [some |-> TRUE, v |-> 75 * BP]
    /\ market_data_results[2].sofr_equivalent_bond_yield = [some |-> TRUE, v |-> 394 * BP]
    /\ results.results[2].fields.offered_hedged_yield_bps = 394 * BP

\* the FIXED bond the classifier pairs bond k with (0: none)
PairedFixedOf(k) == equivalent_fixed_bond(ingested_bonds[k], ingested_bonds)

\* bond k is FLOAT, classified SOFR-equivalent, and paired with a FIXED bond
\* whose spread parses with benchmark T
PairedWithTreasuryQuote(k) ==
    /\ upper(ingested_bonds[k].cpnType) = StrFLOAT
    /\ ClassifiedSofrEquivalent(k)
    /\ PairedFixedOf(k) # 0
    /\ parse_spread(strip(ingested_bonds[PairedFixedOf(k)].spread)).err = ""
    /\ parse_spread(strip(ingested_bonds[PairedFixedOf(k)].spread)).benchmark
          = CodeT

\* C13: fixed/floating consistency: a FLOAT bond classified SOFR-equivalent
\* and paired with a FIXED bond quoted T+x has the same local offered yield
\* as that FIXED bond, whenever both are priced.
C13_FixedFloatingConsistency ==
    (Analyzed /\ results.via = "review") =>
        \A k \in DOMAIN results.results :
            (/\ PairedWithTreasuryQuote(k)
             /\ results.results[k].kind = "result"
             /\ results.results[PairedFixedOf(k)].kind = "result") =>
                results.results[k].fields.calculation_steps.offered_yield_local
                = results.results[PairedFixedOf(k)].fields.calculation_steps
                     .offered_yield_local

Reviewed == pc = "reviewed"

\* the bonds of the batch that can be the paired FIXED bond of bond k:
\* another name, couponType FIXED, same currency, tenor, rating and sector
PartnersOf(k) ==
    {j \in DOMAIN ingested_bonds :
        /\ ingested_bonds[j].bondName # ingested_bonds[k].bondName
        /\ upper(ingested_bonds[j].cpnType) = StrFIXED
        /\ ingested_bonds[j].ccy = ingested_bonds[k].ccy
        /\ PyStr(ingested_bonds[j].tenor) = PyStr(ingested_bonds[k].tenor)
        /\ ingested_bonds[j].rating = ingested_bonds[k].rating
        /\ ingested_bonds[j].sector = ingested_bonds[k].sector}

FirstPartnerOf(k) == CHOOSE j \in PartnersOf(k) : \A i \in PartnersOf(k) : j <= i

\* the spread text of bond j parses with benchmark T
QuotedOverTreasury(j) ==
    /\ parse_spread(strip(ingested_bonds[j].spread)).err = ""
    /\ parse_spread(strip(ingested_bonds[j].spread)).benchmark = CodeT

\* the Treasury-spread baseline x of bond k
BaselineOf(k) ==
    IF PartnersOf(k) # {} /\ QuotedOverTreasury(FirstPartnerOf(k))
    THEN parse_spread(strip(ingested_bonds[FirstPartnerOf(k)].spread)).value
    ELSE 0

IsFloat(k) == upper(ingested_bonds[k].cpnType) = StrFLOAT

IsFixed(k) == upper(ingested_bonds[k].cpnType) = StrFIXED

C15_FlaggedFixedDefaults ==
    Fetched =>
        \A k \in DOMAIN ingested_bonds :
            (IsFixed(k) /\ IsExplicitSofrEquivalent(ingested_bonds[k])) =>
                /\ market_data_results[k].error = ""
                /\ market_data_results[k].is_sofr_equivalent
                /\ market_data_results[k].spread_decimal = 0
                /\ ingested_bonds[k].benchmark = CodeT
                /\ Analyzed =>
                      /\ results.results[k].kind = "result"
                      /\ results.results[k].fields.calculation_steps
                            .benchmark_code = CodeT
                      /\ results.results[k].fields.calculation_steps
                            .spread_decimal = 0

\* bond k is a FLOAT bond with a well-formed spread over S that the explicit
\* signals do not flag
UnflaggedSofrQuote(k) ==
    /\ IsFloat(k)
    /\ ~IsExplicitSofrEquivalent(ingested_bonds[k])
    /\ SpreadFullMatch(strip(ingested_bonds[k].spread))
    /\ parse_spread(strip(ingested_bonds[k].spread)).benchmark = CodeS

PairedOverTreasury(k) ==
    PartnersOf(k) # {} /\ QuotedOverTreasury(FirstPartnerOf(k))

\* C16: after the market-data stage a FLOAT bond quoted S+XXbps and not
\* flagged by the explicit signals is SOFR-equivalent with benchmark T and the
\* paired FIXED bond's spread when that bond parses with benchmark T (its own
\* spread number is dropped); otherwise, for XX # 0, it keeps benchmark S and
\* its own spread and is not SOFR-equivalent.
C16_OverrideByPairing ==
    Reviewed =>
        \A k \in DOMAIN ingested_bonds :
            UnflaggedSofrQuote(k) =>
                LET m == market_data_results[k]
                    own == parse_spread(strip(ingested_bonds[k].spread)).value
                IN  /\ m.error = ""
                    /\ PairedOverTreasury(k) =>
                          /\ m.is_sofr_equivalent
                          /\ ingested_bonds[k].benchmark = CodeT
                          /\ m.spread_decimal = BaselineOf(k)
                    /\ (~PairedOverTreasury(k) /\ own # 0) =>
                          /\ ~m.is_sofr_equivalent
                          /\ ingested_bonds[k].benchmark = CodeS
                          /\ m.spread_decimal = own

\* S+25bps paired with T+50bps: SOFR-equivalent, benchmark T, spread 50 bps
C16_Witness ==
    /\ Reviewed
    /\ Len(ingested_bonds) = 2
    /\ UnflaggedSofrQuote(1)
    /\ ingested_bonds[1].spread = TextS25
    /\ ingested_bonds[2].spread = TextT50
    /\ PairedOverTreasury(1)
    /\ market_data_results[1].is_sofr_equivalent
    /\ ingested_bonds[1].benchmark = CodeT
    /\ market_data_results[1].spread_decimal = 50 * BP

\* C17: the pairing takes the first bond in batch order that has another name,
\* couponType FIXED and the same currency, tenor, rating and sector; what the
\* FLOAT bond resolves to is decided by that bond alone, also when it is not
\* quoted over T and a later matching bond is.
C17_FirstMatchOnly ==
    Reviewed =>
        \A k \in DOMAIN ingested_bonds :
            (IsFloat(k) /\ market_data_results[k].error = ""
                        /\ PartnersOf(k) # {}) =>
                LET m == market_data_results[k]
                    first == ingested_bonds[FirstPartnerOf(k)]
                    flagged == IsExplicitSofrEquivalent(ingested_bonds[k])
                    own == parse_spread(strip(ingested_bonds[k].spread))
                IN  IF QuotedOverTreasury(FirstPartnerOf(k))
                    THEN /\ m.is_sofr_equivalent
                         /\ m.spread_decimal =
                               parse_spread(strip(first.spread)).value
                    ELSE /\ m.is_sofr_equivalent = flagged
                         /\ m.spread_decimal =
                               (IF flagged THEN 0 ELSE own.value)

\* G+10bps first, T+50bps second, then the FLOAT bond quoted S+25bps: the
\* FLOAT bond stays on S with its own 25 bps
C17_Witness ==
    /\ Reviewed
    /\ Len(ingested_bonds) = 3
    /\ ingested_bonds[1].spread = TextG10
    /\ ingested_bonds[2].spread = TextT50
    /\ ingested_bonds[3].spread = TextS25
    /\ PartnersOf(3) = {1, 2}
    /\ UnflaggedSofrQuote(3)
    /\ ~market_data_results[3].is_sofr_equivalent
    /\ ingested_bonds[3].benchmark = CodeS
    /\ market_data_results[3].spread_decimal = 25 * BP

\* the signals as stated: either spelling of the marker in the spread text or
\* in the bond name, or a FLOAT bond quoted S+0bps
MarkedSofrEquivalent(k) ==
    LET text == lower(strip(ingested_bonds[k].spread))
        name == lower(ingested_bonds[k].bondName)
    IN  \/ Contains(text, StrSofrEquivalent)
        \/ Contains(text, StrSofrHyphenEquivalent)
        \/ Contains(name, StrSofrEquivalent)
        \/ Contains(name, StrSofrHyphenEquivalent)
        \/ (IsFloat(k) /\ text \in SofrZeroSpreads)

\* C18: a bond is flagged by the explicit path exactly when its spread text or
\* its name holds the marker in either spelling, or it is a FLOAT bond quoted
\* S+0bps; a flagged bond is resolved by the explicit path (benchmark T, the
\* paired baseline for FLOAT, 0 for FIXED) and only an unflagged bond by the
\* S+XXbps override.
C18_ExplicitSignals ==
    Reviewed =>
        \A k \in DOMAIN ingested_bonds :
            market_data_results[k].error = "" =>
                LET m == market_data_results[k]
                IN  /\ IsExplicitSofrEquivalent(ingested_bonds[k])
                          <=> MarkedSofrEquivalent(k)
                    /\ MarkedSofrEquivalent(k) =>
                          /\ m.is_sofr_equivalent
                          /\ ingested_bonds[k].benchmark = CodeT
                          /\ m.spread_decimal =
                                (IF IsFloat(k) THEN BaselineOf(k) ELSE 0)
                    /\ (~MarkedSofrEquivalent(k) /\ m.is_sofr_equivalent) =>
                          (UnflaggedSofrQuote(k) /\ PairedOverTreasury(k))

\* C19: a FLOAT bond classified SOFR-equivalent carries benchmark T
\* downstream: the bond's 'benchmark' field is T after the market-data stage
\* and after the analysis stage, and so is calculation_steps.benchmark_code of
\* its result.
C19_TreasuryBenchmarkDownstream ==
    Fetched =>
        \A k \in DOMAIN market_data_results :
            (IsFloat(k) /\ ClassifiedSofrEquivalent(k)) =>
                /\ ingested_bonds[k].benchmark = CodeT
                /\ (Analyzed /\ results.results[k].kind = "result") =>
                      results.results[k].fields.calculation_steps.benchmark_code
                      = CodeT

\* bond k is quoted over S and the classifier does not make it
\* SOFR-equivalent
SofrQuoteNotEquivalent(k) ==
    /\ parse_spread(strip(ingested_bonds[k].spread)).err = ""
    /\ parse_spread(strip(ingested_bonds[k].spread)).benchmark = CodeS
    /\ Classify(ingested_bonds[k], ingested_bonds).err = ""
    /\ ~Classify(ingested_bonds[k], ingested_bonds).is_sofr_equivalent

\* the SOFR table behind the analysis of bond k: the table of the market-data
\* stage when the bond was reviewed; otherwise the realtime table when the
\* fetch returned one, else config.py
SofrTableOfAnalysis(k) ==
    IF FromReview(k) THEN SofrTableInUse
    ELSE IF realtime = "ok" THEN RealtimeDataOf(k).sofr_spread_data
    ELSE SOFR_SPREADS

\* C20: a bond quoted over S that is not SOFR-equivalent is priced at
\* S(t) + spreadDecimal, S(t) = T_RATE(t) - T_SOFR_SPREAD(t): from the review
\* entry's fixed_equivalent_yield when the bond was reviewed, from the
\* benchmark rate of code S when the analysis builds the market context.
C20_SofrQuoteYield ==
    Analyzed =>
        \A k \in DOMAIN results.results :
            (/\ SofrQuoteNotEquivalent(k)
             /\ PyInt(ingested_bonds[k].tenor).err = ""
             /\ TenorKeyOf(k) \in DOMAIN SofrTableOfAnalysis(k)) =>
                LET table == SofrTableOfAnalysis(k)
                    y_local == (table[TenorKeyOf(k)].T_RATE
                                - table[TenorKeyOf(k)].T_SOFR_SPREAD)
                               + parse_spread(strip(ingested_bonds[k].spread))
                                    .value
                    name == ingested_bonds[k].bondName
                IN  /\ results.results[k].kind = "result"
                    /\ results.results[k].fields.calculation_steps
                          .offered_yield_local = y_local
                    /\ FromReview(k) =>
                          reviewed_map[name].fixed_equivalent_yield
                          = [some |-> TRUE, v |-> y_local]
                    /\ ~FromReview(k) =>
                          results.results[k].fields.calculation_steps
                             .benchmark_rate
                          = y_local - parse_spread(
                                          strip(ingested_bonds[k].spread)).value

\* S+25bps at tenor 5 with the config.py table: S(5) = 400 - 30 = 370 bps and
\* the local yield is 395 bps, from the review page
C20_Witness ==
    /\ Analyzed
    /\ request = ConfigRequest
    /\ Len(ingested_bonds) = 1
    /\ SofrQuoteNotEquivalent(1)
    /\ FromReview(1)
    /\ TenorKeyOf(1) = <<"5">>
    /\ reviewed_map[ingested_bonds[1].bondName].fixed_equivalent_yield
          = [some |-> TRUE, v |-> 395 * BP]
    /\ results.results[1].fields.calculation_steps.offered_yield_local
          = 395 * BP

(***************************************************************************)
(* Properties of run_single_bond_analysis and run_full_analysis as         *)
(* functions of the batch and the market data (Spec).                      *)
(***************************************************************************)
\* C21: a second run of run_single_bond_analysis on the bond record left by
\* the first run (its 'benchmark' field written), with the same market data,
\* returns the result of the first run and leaves the record as it is.
C21_SecondRunIdentical ==
    Analyzed =>
        \A k \in DOMAIN results.results :
            results.results[k].kind # "raised" =>
                /\ run_single_bond_analysis(ingested_bonds[k], reviewed_map,
                                            realtime)
                   = results.results[k]
                /\ BondAfterAnalysis(ingested_bonds[k], reviewed_map, realtime)
                   = ingested_bonds[k]

\* a bond analysed without review data: the first run wrote benchmark T into
\* a record that had none, and priced the bond
C21_Witness ==
    /\ Analyzed
    /\ results.via = "bonds"
    /\ ingested_bonds[1].spread = TextT50
    /\ ingested_bonds[1].benchmark = CodeT
    /\ results.results[1].kind = "result"
    /\ run_single_bond_analysis(ingested_bonds[1], reviewed_map, realtime)
       = results.results[1]

\* C22: the /analyze step leaves the market_data_map and the tables inside it
\* (funding rates, SOFR spreads, fair value), the market-data results and the
\* request as they were, and changes nothing of an input bond but its
\* 'benchmark' field.
C22_AnalysisFrame ==
    [][(pc # "analyzed" /\ pc' = "analyzed") =>
          /\ pc = "reviewed" => reviewed_map' = reviewed_map
          /\ market_data_results' = market_data_results
          /\ request' = request
          /\ DOMAIN ingested_bonds' = DOMAIN ingested_bonds
          /\ \A k \in DOMAIN ingested_bonds :
                [ingested_bonds'[k] EXCEPT !.benchmark =
                                              ingested_bonds[k].benchmark]
                = ingested_bonds[k]]_vars

\* a reviewed SOFR-equivalent bond after the analysis: the market-data stage
\* had written benchmark T, the analysis wrote S, and the review entry is the
\* one the market-data stage returned
C22_Witness ==
    /\ Analyzed
    /\ results.via = "review"
    /\ Len(ingested_bonds) >= 2
    /\ FromReview(2)
    /\ reviewed_map[ingested_bonds[2].bondName] = market_data_results[2]
    /\ market_data_results[2].is_sofr_equivalent
    /\ ingested_bonds[2].benchmark = CodeS
    /\ ingested_bonds[2].spread = TextS25
    /\ results.results[2].kind = "result"

\* the batch with its bonds rearranged by p
Permuted(batch, p) == [k \in DOMAIN batch |-> batch[p[k]]]

\* the rearrangement that exchanges positions i and j of 1 .. n
Exchange(n, i, j) ==
    [k \in 1 .. n |-> IF k = i THEN j ELSE IF k = j THEN i ELSE k]

\* C23: with the market data fixed, the /analyze step answers the input batch
\* with any two of its bonds exchanged (the exchanges generate every
\* permutation) with the same results exchanged in the same way, and answers
\* every bond analysed alone with the result the bond has in the batch.
C23_PermutationInvariant ==
    [][(pc # "analyzed" /\ pc' = "analyzed") =>
          /\ \A i, j \in DOMAIN ingested_bonds :
                i < j =>
                   run_full_analysis(
                      Permuted(ingested_bonds,
                               Exchange(Len(ingested_bonds), i, j)),
                      reviewed_map, realtime').results
                   = Permuted(results'.results,
                              Exchange(Len(ingested_bonds), i, j))
          /\ \A k \in DOMAIN ingested_bonds :
                run_full_analysis(<<ingested_bonds[k]>>, reviewed_map,
                                  realtime').results
                = <<results'.results[k]>>]_vars

\* an analysed 3-bond batch with a full result first and an error record
\* last: analysed in reverse order the error record comes first
C23_Witness ==
    /\ Analyzed
    /\ results.via = "review"
    /\ Len(results.results) = 3
    /\ results.results[1].kind = "result"
    /\ results.results[3].kind = "error"
    /\ run_full_analysis(Permuted(ingested_bonds, Exchange(3, 1, 3)),
                         reviewed_map, realtime).results[1]
       = results.results[3]

\* the uploaded 'Curves Information' table holds an entry for bond k
SuppliedFairEntry(k) ==
    LET bond == ingested_bonds[k]
        key == upper(CurveKey(bond.ccy, bond.sector))
        tenor == IntToDigits(PyInt(bond.tenor).value)
    IN  /\ key \in DOMAIN request.fair_value_curves
        /\ bond.rating \in DOMAIN request.fair_value_curves[key]
        /\ tenor \in DOMAIN request.fair_value_curves[key][bond.rating]

SuppliedFairYtm(k) ==
    LET bond == ingested_bonds[k]
    IN  request.fair_value_curves[upper(CurveKey(bond.ccy, bond.sector))][
            bond.rating][IntToDigits(PyInt(bond.tenor).value)]

\* C24: with a fair-value table uploaded, a bond whose market data is
\* answered without error has an entry in that table at
\* upper("{ccy}_{sector}"), rating, tenor and carries that entry as its
\* fair_ytm_local; a bond without such an entry is answered with an error.
C24_FairValueFromSuppliedTable ==
    (Fetched /\ DOMAIN request.fair_value_curves # {}) =>
        \A k \in DOMAIN market_data_results :
            market_data_results[k].error = "" =>
                /\ SuppliedFairEntry(k)
                /\ market_data_results[k].fair_ytm_local = SuppliedFairYtm(k)

\* the benchmark-rate table of the market-data stage: the uploaded one, else
\* config.py
BenchmarkTableOfFetch ==
    IF DOMAIN request.benchmark_rates # {} THEN request.benchmark_rates
    ELSE MARKET_RATES

\* the benchmark-rate table behind the analysis of bond k: the one of the
\* market-data stage for a reviewed bond, else the realtime rate of the
\* bond's own code, else config.py
BenchmarkTableOfAnalysis(k, code) ==
    IF FromReview(k) THEN BenchmarkTableOfFetch
    ELSE IF RealtimeInUse(k)
    THEN [c \in {code} |-> RealtimeDataOf(k).benchmark_rate]
    ELSE MARKET_RATES

\* C25: a bond quoted over a benchmark code other than S that has no rate in
\* the benchmark-rate table in use is answered with the missing-rate error, by
\* the market-data stage and by the analysis (an error record without
\* values); a code that has a rate, the rate 0 included, never is, and its
\* rate is the one the offered yield is built from.
C25_MissingBenchmarkRate ==
    /\ Fetched =>
          \A k \in DOMAIN market_data_results :
              PlainBond(k) =>
                  LET code == parse_spread(strip(ingested_bonds[k].spread)).benchmark
                      f == market_data_results[k]
                  IN  IF code \notin DOMAIN BenchmarkTableOfFetch
                      THEN f.error = "Benchmark rate not found"
                      ELSE /\ f.error # "Benchmark rate not found"
                           /\ f.error = "" =>
                                 f.benchmark_rate = BenchmarkTableOfFetch[code]
    /\ Analyzed =>
          \A k \in DOMAIN results.results :
              PlainBond(k) =>
                  LET parsed == parse_spread(strip(ingested_bonds[k].spread))
                      table == BenchmarkTableOfAnalysis(k, parsed.benchmark)
                      r == results.results[k]
                  IN  IF parsed.benchmark \notin DOMAIN table
                      THEN /\ r.kind = "error"
                           /\ r.error = "Benchmark rate not found"
                           /\ r.assessment = "Error/N/A"
                           /\ r.fields = NoFields
                      ELSE /\ r.error # "Benchmark rate not found"
                           /\ r.kind = "result" =>
                                 /\ r.fields.calculation_steps.benchmark_rate
                                    = table[parsed.benchmark]
                                 /\ r.fields.calculation_steps.offered_yield_local
                                    = table[parsed.benchmark] + parsed.value

\* a reviewed T+50bps bond under an uploaded Treasury rate of 0, analysed to
\* an offered yield of 50 bps, next to an L+10bps bond with no rate anywhere
C25_Witness ==
    /\ Analyzed
    /\ Len(results.results) = 2
    /\ DOMAIN request.benchmark_rates = {CodeT}
    /\ request.benchmark_rates[CodeT] = 0
    /\ FromReview(1)
    /\ ingested_bonds[1].spread = TextT50
    /\ results.results[1].kind = "result"
    /\ results.results[1].fields.calculation_steps.benchmark_rate = 0
    /\ results.results[1].fields.calculation_steps.offered_yield_local = 50 * BP
    /\ ingested_bonds[2].spread = TextL10
    /\ parse_spread(TextL10).benchmark = CodeL
    /\ market_data_results[2].error = "Benchmark rate not found"
    /\ results.results[2].kind = "error"
    /\ results.results[2].error = "Benchmark rate not found"

\* C26: in every successful result whose breakdown carries no
\* sofr_equivalent_spread entry, the breakdown's offered_yield_local is its
\* benchmark_rate plus its spread_decimal.
C26_BreakdownDerivesOfferedYield ==
    Analyzed =>
        \A k \in DOMAIN results.results :
            (/\ results.results[k].kind = "result"
             /\ ~results.results[k].fields.calculation_steps
                    .sofr_equivalent_spread.some) =>
                results.results[k].fields.calculation_steps.offered_yield_local
                = results.results[k].fields.calculation_steps.benchmark_rate
                  + results.results[k].fields.calculation_steps.spread_decimal

\* C27: on every batch and with the same tables, the online service resolves
\* for every bond the (benchmark code, spread decimal, is_sofr_equivalent) that
\* /fetchMarketData resolves, and answers the bond with the same error or the
\* same sofr_equivalent_bond_yield and fixed_equivalent_yield.
C27_OnlineReplicatesStatic ==
    [][(pc = "ingested" /\ pc' = "reviewed") =>
          \A k \in DOMAIN ingested_bonds :
              LET online == OnlineMarketDataFor(k, ingested_bonds, request)
                  static == market_data_results'[k]
              IN  /\ OnlineClassify(ingested_bonds[k], ingested_bonds)
                     = Classify(ingested_bonds[k], ingested_bonds)
                  /\ online.error = static.error
                  /\ online.benchmark_code = static.benchmark_code
                  /\ online.spread_decimal = static.spread_decimal
                  /\ online.is_sofr_equivalent = static.is_sofr_equivalent
                  /\ online.sofr_equivalent_bond_yield
                     = static.sofr_equivalent_bond_yield
                  /\ online.fixed_equivalent_yield
                     = static.fixed_equivalent_yield]_vars

\* a FLOAT S+25bps bond paired with a FIXED T+50bps bond, fetched: both
\* services resolve (T, 50 bps, SOFR-equivalent) and the same bond yield
C27_Witness ==
    /\ Reviewed
    /\ Len(ingested_bonds) >= 2
    /\ ingested_bonds[1].spread = TextT50
    /\ ingested_bonds[2].spread = TextS25
    /\ upper(ingested_bonds[2].cpnType) = StrFLOAT
    /\ market_data_results[2].error = ""
    /\ market_data_results[2].is_sofr_equivalent
    /\ market_data_results[2].sofr_equivalent_bond_yield.some
    /\ OnlineClassify(ingested_bonds[2], ingested_bonds)
       = Classified(CodeT, 50 * BP, TRUE)
    /\ OnlineMarketDataFor(2, ingested_bonds, request)
           .sofr_equivalent_bond_yield
       = market_data_results[2].sofr_equivalent_bond_yield

\* C28: calculate_usd_hedged_yield returns the hedged yield
\* Y_local + (funding[USD] - funding[ccy]) whenever the funding-rate table
\* holds both the USD rate and the currency's rate, whatever their values (0
\* and negative rates included); it reports no missing funding rate then.
C28_PresentRateIsUsed ==
    (/\ Called("calculate_usd_hedged_yield")
     /\ {USD, call.ccy} \subseteq DOMAIN call.funding_rates) =>
        /\ call.ret.err = ""
        /\ call.ret.value
           = call.local_yield
             + (call.funding_rates[USD] - call.funding_rates[call.ccy])

(***************************************************************************)
(* Python floats.  The rates of a request and the results of the engine    *)
(* are IEEE-754 binary64 numbers: a magnitude of at most 53 significant    *)
(* bits, kept here as an integer multiple of 2^-84 in six 14-bit limbs     *)
(* (least significant first), and a sign.  Every sum and difference is     *)
(* rounded to nearest, ties to even, as the hardware rounds it.            *)
(***************************************************************************)
LIMB == 16384

RECURSIVE BigCarry(_, _, _)
BigCarry(a, b, i) ==
    IF i = 1 THEN 0
    ELSE (a[i - 1] + b[i - 1] + BigCarry(a, b, i - 1)) \div LIMB

BigAdd(a, b) == [i \in 1 .. 6 |-> (a[i] + b[i] + BigCarry(a, b, i)) % LIMB]

RECURSIVE BigBorrow(_, _, _)
BigBorrow(a, b, i) ==
    IF i = 1 THEN 0
    ELSE IF a[i - 1] - b[i - 1] - BigBorrow(a, b, i - 1) < 0 THEN 1 ELSE 0

BigSub(a, b) ==
    [i \in 1 .. 6 |-> (a[i] - b[i] - BigBorrow(a, b, i) + LIMB) % LIMB]

BigLess(a, b) ==
    \E i \in 1 .. 6 : a[i] < b[i] /\ \A j \in 1 .. 6 : j > i => a[j] = b[j]

\* The number of significant binary digits of a magnitude.
BigLength(a) ==
    IF \A i \in 1 .. 6 : a[i] = 0 THEN 0
    ELSE With(CHOOSE i \in 1 .. 6 :
                  a[i] # 0 /\ \A j \in 1 .. 6 : j > i => a[j] = 0,
              LAMBDA i :
                  14 * (i - 1)
                  + (CHOOSE n \in 1 .. 14 :
                         (2 ^ (n - 1)) <= a[i] /\ a[i] < (2 ^ n)))

\* 2^k - 1 + odd: what rounding adds before the k + 1 lowest digits are cut.
BigLowOnes(k, odd) ==
    [i \in 1 .. 6 |-> (IF i = 1 THEN odd ELSE 0)
                     + (IF k >= 14 * i THEN LIMB - 1
                        ELSE IF k <= 14 * (i - 1) THEN 0
                        ELSE (2 ^ (k - 14 * (i - 1))) - 1)]

BigClearLow(a, k) ==
    [i \in 1 .. 6 |-> IF k >= 14 * i THEN 0
                     ELSE IF k <= 14 * (i - 1) THEN a[i]
                     ELSE a[i] - (a[i] % (2 ^ (k - 14 * (i - 1))))]

\* Round a magnitude to 53 significant bits, to nearest, ties to even.
Round53(a) ==
    With(BigLength(a) - 53, LAMBDA drop :
        IF drop <= 0 THEN a
        ELSE BigClearLow(
                 BigAdd(a, BigLowOnes(
                               drop - 1,
                               (a[(drop \div 14) + 1]
                                \div (2 ^ (drop % 14))) % 2)),
                 drop))

\* The next seven binary digits of r / d, and the remainder they leave.
Digits7(r, d) == [q |-> (128 * r) \div d, r |-> (128 * r) % d]

\* The 84 binary digits of n / d below the point, the lowest one set when
\* digits remain beyond them, for 0 <= n < d.
BigOfRatio(n, d) ==
    With(Digits7(n, d), LAMBDA d1 :
    With(Digits7(d1.r, d), LAMBDA d2 :
    With(Digits7(d2.r, d), LAMBDA d3 :
    With(Digits7(d3.r, d), LAMBDA d4 :
    With(Digits7(d4.r, d), LAMBDA d5 :
    With(Digits7(d5.r, d), LAMBDA d6 :
    With(Digits7(d6.r, d), LAMBDA d7 :
    With(Digits7(d7.r, d), LAMBDA d8 :
    With(Digits7(d8.r, d), LAMBDA d9 :
    With(Digits7(d9.r, d), LAMBDA d10 :
    With(Digits7(d10.r, d), LAMBDA d11 :
    With(Digits7(d11.r, d), LAMBDA d12 :
        <<128 * d11.q + d12.q
              + (IF d12.r # 0 /\ d12.q % 2 = 0 THEN 1 ELSE 0),
          128 * d9.q + d10.q, 128 * d7.q + d8.q, 128 * d5.q + d6.q,
          128 * d3.q + d4.q, 128 * d1.q + d2.q>>))))))))))))

\* The float nearest to the decimal x / ONE: a JSON number of the request,
\* a literal of config.py, or the quotient bps_value / BPS_CONVERSION.
F64(x) ==
    [neg |-> x < 0,
     mag |-> Round53(BigOfRatio(IF x < 0 THEN -x ELSE x, ONE))]

F64Add(a, b) ==
    IF a.neg = b.neg THEN [neg |-> a.neg, mag |-> Round53(BigAdd(a.mag, b.mag))]
    ELSE IF a.mag = b.mag THEN [neg |-> FALSE, mag |-> BigSub(a.mag, b.mag)]
    ELSE IF BigLess(a.mag, b.mag)
         THEN [neg |-> b.neg, mag |-> Round53(BigSub(b.mag, a.mag))]
         ELSE [neg |-> a.neg, mag |-> Round53(BigSub(a.mag, b.mag))]

F64Sub(a, b) == F64Add(a, [b EXCEPT !.neg = ~b.neg])

F64Less(a, b) ==
    IF a.neg /\ ~b.neg THEN BigLength(a.mag) + BigLength(b.mag) > 0
    ELSE IF ~a.neg /\ b.neg THEN FALSE
    ELSE IF a.neg THEN BigLess(b.mag, a.mag)
    ELSE BigLess(a.mag, b.mag)

\* calculate_usd_hedged_yield on floats, for a table that holds both rates.
calculate_usd_hedged_yield_f64(local_yield, ccy, funding_rates) ==
    With(F64Sub(F64(funding_rates[USD]), F64(funding_rates[ccy])),
         LAMBDA fx_hedge_cost :
             [value |-> F64Add(local_yield, fx_hedge_cost),
              cost |-> fx_hedge_cost])

determine_assessment_f64(excess_yield) ==
    IF F64Less(F64(CHEAP_THRESHOLD), excess_yield) THEN "Cheap (BUY)"
    ELSE IF F64Less(excess_yield, F64(RICH_THRESHOLD)) THEN "Rich (PASS)"
    ELSE "Fair (HOLD)"

\* run_single_bond_analysis on floats, for a bond quoted over a benchmark
\* whose rate is in the table: the offered yield is benchmark plus spread,
\* both yields are hedged with the same table, and the difference is assessed.
AssessmentOfFloats(benchmark_rate, spread_bps, ccy, fair_ytm_local, funding_rates) ==
    With(calculate_usd_hedged_yield_f64(
             F64Add(F64(benchmark_rate), F64(spread_bps * BP)),
             ccy, funding_rates).value,
         LAMBDA offered_hedged_yield :
    With(calculate_usd_hedged_yield_f64(
             F64(fair_ytm_local), ccy, funding_rates).value,
         LAMBDA fair_hedged_yield :
        determine_assessment_f64(
            F64Sub(offered_hedged_yield, fair_hedged_yield))))

FloatFundingTables ==
    {[c \in {USD, CAD} |-> IF c = USD THEN u ELSE r] :
         u \in {500 * BP, 520 * BP}, r \in {125 * BP, 450 * BP, 470 * BP}}

FloatInit ==
    /\ PipeIdle
    /\ \E b \in {340 * BP, 370 * BP}, s \in {25, 50, 75}, c \in {USD, CAD},
          y \in {365 * BP, 370 * BP, 385 * BP, 400 * BP},
          f \in FloatFundingTables :
          call = [fn |-> "run_single_bond_analysis", done |-> FALSE,
                  benchmark_rate |-> b, spread_bps |-> s, ccy |-> c,
                  fair_ytm_local |-> y, funding_rates |-> f,
                  ret |-> "pending"]

CallAnalysisOfFloats ==
    /\ call.fn = "run_single_bond_analysis" /\ ~call.done
    /\ call' = [call EXCEPT !.done = TRUE,
                            !.ret = AssessmentOfFloats(
                                        call.benchmark_rate, call.spread_bps,
                                        call.ccy, call.fair_ytm_local,
                                        call.funding_rates)]
    /\ UNCHANGED pipeVars

FloatSpec == FloatInit /\ [][CallAnalysisOfFloats]_vars

\* C29: for a fixed bond and fair value the assessment is the same under
\* every funding-rate table that holds a usable USD rate and a usable rate of
\* the bond's currency: the hedge cost added to both yields cancels.
C29_AssessmentIndependentOfFunding ==
    Called("run_single_bond_analysis") =>
        \A other \in FloatFundingTables :
            AssessmentOfFloats(call.benchmark_rate, call.spread_bps, call.ccy,
                               call.fair_ytm_local, other) = call.ret

\* C30: in every successful result the assessment agrees with the
\* excess_yield_bps reported beside it (rounded to two decimals): Cheap (BUY)
\* exactly when it is greater than 5, Rich (PASS) exactly when it is less than
\* -5, Fair (HOLD) otherwise.
C30_AssessmentAgreesWithReportedExcess ==
    Analyzed =>
        \A k \in DOMAIN results.results :
            results.results[k].kind = "result" =>
                LET reported == results.results[k].fields.excess_yield_bps
                IN  results.results[k].assessment
                    = (IF reported > 5 * BP THEN "Cheap (BUY)"
                       ELSE IF reported < -5 * BP THEN "Rich (PASS)"
                       ELSE "Fair (HOLD)")

====
